---- MODULE Spec2Model ----
(***************************************************************************)
(* Orchestra: session tree and store, the MCP tool service                 *)
(* (spawn_subagent, send_message_to_session), the UI's delete-session      *)
(* task, terminal delivery, the JSONL message queue and its file lock,     *)
(* pairing (toggle_pairing), the monitor service with its monitors, its    *)
(* shutdown and the consumer loop in time, the control plane's start and  *)
(* delete with the docker helpers, the hook forwarder, the supervisor's    *)
(* shutdown, stable git relocation and the file watcher.                   *)
(*                                                                         *)
(* Texts (session names, messages) are sequences of one-character strings, *)
(* so that JSON encoding and line splitting are modelled on characters.    *)
(***************************************************************************)
EXTENDS Integers, Sequences, FiniteSets, TLC

(***************************************************************************)
(* Bounds                                                                  *)
(***************************************************************************)
\* tool calls that may be in flight at the same time
NumCalls == 2
\* sessions in one tree (root included) when tool calls run one at a time
MaxNodes == 5
\* sessions in one tree (root included) when tool calls overlap
MaxConcNodes == 3
\* sessions in one tree (root included) while the UI is running
MaxUiNodes == 2
\* append_message calls on one queue file
MaxMessages == 3
\* processes that use the queue file at the same time
NumQueueProcs == 2
\* append_message calls made by those processes
MaxAppends == 2
\* lines of a queue file that was not written by append_message alone
MaxFileLines == 3
\* toggle_pairing calls on the sessions of one project
MaxToggles == 3
\* hook requests handled at the same time
NumHookRequests == 2
\* hook requests received by the monitor service
MaxHooks == 3
\* maxsize of a monitor's queue (1000 in the program, 2 in the backpressure
\* scenario)
QueueCapacity == 2
\* MAX_BATCH_SIZE (10 in the program)
MaxBatchSize == 2
\* send_message_to_session calls
MaxSends == 2
\* seconds of the event loop's clock
MaxTime == 30
\* control-plane calls
MaxCtlCalls == 3
\* runs of the hook forwarder
MaxForwarderRuns == 2
\* calls of ensure_stable_git_location
MaxRelocations == 2
\* changes made in the watched directories
MaxChanges == 3

Calls == 1..NumCalls

\* nil parent_session_name / "no session found"
NoName == << >>
NoPath == << >>

Designer == <<"d">>
Names == { <<"d">>, <<"a">>, <<"b">> }

VARIABLES
    store,       \* sessions.json entry of the project: list of root sessions
    worktrees,   \* session ids whose workspace has been prepared
    files,       \* session ids whose instructions/settings files are written
    terminals,   \* session ids with a live terminal session
    pc,          \* position of each tool call
    args,        \* arguments of each tool call
    sessions,    \* the tree each tool call loaded (its in-memory objects)
    parent,      \* path of the parent Session object the call found
    result,      \* what each tool call returned
    mtimeChanged,\* sessions.json was rewritten since the UI last looked at it
    uiRoot,      \* the UI's state.root_session (a list: empty when None)
    uiPc,        \* position of the UI's delete-session task
    uiTarget,    \* session_to_delete of that task
    messages_file,  \* MESSAGES_FILE: whether it exists, and its characters
    appended,    \* the message objects append_message has written, in order
    lastRead,    \* the latest read_pending_messages call and what it returned
    panes,       \* keys received by pane 0 of each terminal session
    sent,        \* the latest send_message_to_session call and its outcome
    flock,       \* flock state of MESSAGES_FILE: exclusive holder, shared holders
    qproc,       \* position and locals of each process using the queue
    issued,      \* append_message calls started so far
    fs,          \* what is at source_path and at {source_path}.backup
    gitFile,     \* the gitdir named by the .git file of each worktree
    paired,      \* Session.paired of each session
    paired_session_id,  \* the UI's state.paired_session_id
    toggles,     \* the toggle_pairing calls made so far, latest last
    _monitors,   \* the monitor service's registry: session_id -> monitor
    monitors,    \* the monitor objects constructed so far
    hreq,        \* the hook requests being handled
    posted,      \* hook requests received so far
    down,        \* the monitor service's shutdown handler: position and locals
    time,        \* the event loop's time(), in seconds
    use_docker,  \* TmuxProtocol.use_docker
    containers,  \* the containers docker holds: name, id, state
    created,     \* containers created so far by docker run
    ctl,         \* the latest control-plane call and its outcome
    prepared,    \* the sessions whose work_path is set
    fwd,         \* a run of the hook forwarder: its inputs, position and exit
    sup,         \* the supervisor's cleanup_servers: its position and its world
    repo,        \* a project's .git, its backup and the stable location
    watch        \* the FileWatcher, the watched directory and the notifications

envVars == << worktrees, files, terminals >>
toolVars == << pc, args, sessions, parent, result >>
uiVars == << uiRoot, uiPc, uiTarget >>
queueVars == << messages_file, appended, lastRead >>
msgVars == << queueVars, panes, sent >>

\* the queue file's lock and the processes that use the queue
lockVars == << flock, qproc, issued >>
\* state of the other services
\* pairing: the project's directories and the sessions' flags
pairVars == << fs, gitFile, paired, paired_session_id, toggles >>
\* the monitor service
monVars == << _monitors, monitors, hreq, posted >>
\* the monitor service's shutdown
downVars == << down >>
\* the event loop's clock
timeVars == << time >>
\* the control plane: docker and the latest call
ctlVars == << use_docker, containers, created, ctl, prepared >>
\* the hook forwarder, the supervisor, git relocation and the file watcher
runVars == << fwd, sup, repo, watch >>
restVars == << downVars, timeVars, ctlVars, runVars >>
otherVars == << lockVars, pairVars, monVars, restVars >>
\* what the queue's processes, pairing and the monitor service leave alone
othersOfLock == << pairVars, monVars, restVars >>
othersOfPair == << lockVars, monVars, restVars >>
othersOfMon == << lockVars, pairVars, restVars >>
\* what the shutdown handler leaves alone
othersOfDown == << lockVars, pairVars, timeVars, ctlVars, runVars >>
\* what a consumer task that reads the clock leaves alone
othersOfTime == << lockVars, pairVars, downVars, ctlVars, runVars >>
\* what the control plane's start and delete leave alone
othersOfCtl == << lockVars, pairVars, monVars, downVars, timeVars, runVars >>

\* what the forwarder, the supervisor, git relocation and the file watcher
\* leave alone, the variable of each apart
othersOfRun == << store, mtimeChanged, envVars, toolVars, uiVars, queueVars, sent, lockVars,
                 pairVars, monVars, downVars, timeVars, ctlVars >>

vars == << store, mtimeChanged, envVars, toolVars, uiVars, msgVars, otherVars >>

(***************************************************************************)
(* Session objects                                                         *)
(***************************************************************************)
Session(name, agentType, parentName) ==
    [ session_name |-> name, agent_type |-> agentType,
      parent_session_name |-> parentName, children |-> << >> ]

\* session_id is "{project}-{session_name}"; one project is modelled
SessionId(name) == name

RECURSIVE FindFrom(_, _, _)
FindFrom(list, i, name) ==
    IF i > Len(list) THEN NoPath
    ELSE IF list[i].session_name = name THEN << i >>
    ELSE LET sub == FindFrom(list[i].children, 1, name)
         IN  IF sub # NoPath THEN << i >> \o sub
             ELSE FindFrom(list, i + 1, name)

\* depth-first search by session_name, first match in pre-order
find_session(list, name) == FindFrom(list, 1, name)

RECURSIVE NodeAt(_, _)
NodeAt(list, path) ==
    IF Len(path) = 1 THEN list[path[1]]
    ELSE NodeAt(list[path[1]].children, Tail(path))

RECURSIVE AppendChild(_, _, _)
AppendChild(list, path, child) ==
    IF Len(path) = 1
    THEN [ list EXCEPT ![path[1]].children = Append(@, child) ]
    ELSE [ list EXCEPT ![path[1]].children = AppendChild(@, Tail(path), child) ]

RECURSIVE Flatten(_)
Flatten(list) ==
    IF list = << >> THEN << >>
    ELSE << Head(list) >> \o Flatten(Head(list).children) \o Flatten(Tail(list))

NodeCount(list) == Len(Flatten(list))

Nodes(list) == { Flatten(list)[i] : i \in 1..Len(Flatten(list)) }

Children(node) == { node.children[i] : i \in 1..Len(node.children) }

\* load_sessions(project_dir): the project's entry of the store document
load_sessions == store

\* save_sessions(sessions, project_dir): the entry is rewritten as a whole
save_sessions(list) == list

(***************************************************************************)
(* JSON lines of the message queue (orchestra/lib/message_queue.py)        *)
(***************************************************************************)
Quote == "\""
Backslash == "\\"
Newline == "\n"
Whitespace == { " ", Newline }

K_id == << "i", "d" >>
K_timestamp == << "t", "i", "m", "e", "s", "t", "a", "m", "p" >>
K_sender == << "s", "e", "n", "d", "e", "r" >>
K_target == << "t", "a", "r", "g", "e", "t" >>
K_message == << "m", "e", "s", "s", "a", "g", "e" >>
K_source_path == << "s", "o", "u", "r", "c", "e", "_", "p", "a", "t", "h" >>

\* EscapeChar that writes every character as it is
EscapeCharRaw(ch) == << ch >>

\* json.dumps of one character of a str
EscapeChar(ch) ==
    IF ch = Quote THEN << Backslash, Quote >>
    ELSE IF ch = Backslash THEN << Backslash, Backslash >>
    ELSE IF ch = Newline THEN << Backslash, "n" >>
    ELSE << ch >>

RECURSIVE Escape(_)
Escape(text) ==
    IF text = << >> THEN << >>
    ELSE EscapeChar(Head(text)) \o Escape(Tail(text))

\* json.dumps of a str
JsonString(text) == << Quote >> \o Escape(text) \o << Quote >>

\* a dict is the sequence of its (key, value) pairs in insertion order
RECURSIVE JsonMembers(_)
JsonMembers(obj) ==
    IF obj = << >> THEN << >>
    ELSE JsonString(obj[1][1]) \o << ":", " " >> \o JsonString(obj[1][2])
         \o (IF Len(obj) > 1 THEN << ",", " " >> ELSE << >>)
         \o JsonMembers(Tail(obj))

\* json.dumps of a dict of str values
json_dumps(obj) == << "{" >> \o JsonMembers(obj) \o << "}" >>

\* --- json.loads, for objects whose members are strings ---
Malformed == [ ok |-> FALSE ]

RECURSIVE SkipWs(_, _)
SkipWs(s, i) ==
    IF i <= Len(s) /\ s[i] \in Whitespace THEN SkipWs(s, i + 1) ELSE i

\* scan a string body from position i (after the opening quote)
RECURSIVE ScanString(_, _, _)
ScanString(s, i, acc) ==
    IF i > Len(s) THEN Malformed
    ELSE IF s[i] = Quote THEN [ ok |-> TRUE, value |-> acc, next |-> i + 1 ]
    ELSE IF s[i] = Newline THEN Malformed
    ELSE IF s[i] = Backslash
         THEN IF i + 1 > Len(s) THEN Malformed
              ELSE IF s[i + 1] = Quote THEN ScanString(s, i + 2, Append(acc, Quote))
              ELSE IF s[i + 1] = Backslash THEN ScanString(s, i + 2, Append(acc, Backslash))
              ELSE IF s[i + 1] = "n" THEN ScanString(s, i + 2, Append(acc, Newline))
              ELSE Malformed
    ELSE ScanString(s, i + 1, Append(acc, s[i]))

ParseString(s, i) ==
    IF i <= Len(s) /\ s[i] = Quote THEN ScanString(s, i + 1, << >>) ELSE Malformed

\* members from position i (at a key), collected into acc
RECURSIVE ParseMembers(_, _, _)
ParseMembers(s, i, acc) ==
    LET key == ParseString(s, i) IN
    IF ~ key.ok THEN Malformed
    ELSE LET colon == SkipWs(s, key.next) IN
         IF colon > Len(s) \/ s[colon] # ":" THEN Malformed
         ELSE LET val == ParseString(s, SkipWs(s, colon + 1)) IN
              IF ~ val.ok THEN Malformed
              ELSE LET sep == SkipWs(s, val.next)
                       obj == Append(acc, << key.value, val.value >>)
                   IN  IF sep > Len(s) THEN Malformed
                       ELSE IF s[sep] = "}"
                            THEN [ ok |-> TRUE, value |-> obj, next |-> sep + 1 ]
                       ELSE IF s[sep] = ","
                            THEN ParseMembers(s, SkipWs(s, sep + 1), obj)
                       ELSE Malformed

Digits == { "0", "1", "2", "3", "4", "5", "6", "7", "8", "9" }

\* a JSON document that is not an object: an int or a str
NotADict == [ ok |-> TRUE, dict |-> FALSE, value |-> << >> ]

\* a JSON number from position i: digits, without a leading zero
RECURSIVE SkipDigits(_, _)
SkipDigits(s, i) ==
    IF i <= Len(s) /\ s[i] \in Digits THEN SkipDigits(s, i + 1) ELSE i

ParseNumber(s, i) ==
    LET end == SkipDigits(s, i) IN
    IF end = i THEN Malformed
    ELSE IF s[i] = "0" /\ end > i + 1 THEN Malformed
    ELSE [ ok |-> TRUE, next |-> end ]

\* json.loads(line): the decoded document, or Malformed for JSONDecodeError
json_loads(s) ==
    LET open == SkipWs(s, 1) IN
    IF open > Len(s) THEN Malformed
    ELSE IF s[open] = "{"
    THEN LET first == SkipWs(s, open + 1)
             body == IF first <= Len(s) /\ s[first] = "}"
                     THEN [ ok |-> TRUE, value |-> << >>, next |-> first + 1 ]
                     ELSE ParseMembers(s, first, << >>)
         IN  IF ~ body.ok THEN Malformed
             ELSE IF SkipWs(s, body.next) <= Len(s) THEN Malformed
             ELSE [ ok |-> TRUE, dict |-> TRUE, value |-> body.value ]
    ELSE LET scalar == IF s[open] = Quote THEN ParseString(s, open)
                       ELSE ParseNumber(s, open)
         IN  IF ~ scalar.ok THEN Malformed
             ELSE IF SkipWs(s, scalar.next) <= Len(s) THEN Malformed
             ELSE NotADict

\* dict.get(key): the value of the last member with that key, or None
None == << "None" >>
RECURSIVE DictGet(_, _)
DictGet(obj, key) ==
    IF obj = << >> THEN None
    ELSE IF obj[Len(obj)][1] = key THEN obj[Len(obj)][2]
    ELSE DictGet(SubSeq(obj, 1, Len(obj) - 1), key)

\* iterating a text file: the lines from position i, each with its newline
RECURSIVE LinesFrom(_, _)
LinesFrom(s, i) ==
    IF i > Len(s) THEN << >>
    ELSE LET ends == { j \in i..Len(s) : s[j] = Newline } IN
         IF ends = { } THEN << SubSeq(s, i, Len(s)) >>
         ELSE LET e == CHOOSE j \in ends : \A k \in ends : j <= k
              IN  << SubSeq(s, i, e) >> \o LinesFrom(s, e + 1)

Lines(s) == LinesFrom(s, 1)

RECURSIVE StripLeft(_)
StripLeft(s) ==
    IF s # << >> /\ Head(s) \in Whitespace THEN StripLeft(Tail(s)) ELSE s

RECURSIVE StripRight(_)
StripRight(s) ==
    IF s # << >> /\ s[Len(s)] \in Whitespace
    THEN StripRight(SubSeq(s, 1, Len(s) - 1)) ELSE s

\* str.strip()
Strip(s) == StripRight(StripLeft(s))

\* the message texts and queue targets that are tried
Texts == { << "h", "i" >>, << Quote, Backslash, "n", Newline >> }
QueueTargets == { << "d" >>, << "d", Newline >> }
SourcePath == << "/", "p" >>
\* the message texts that concurrent writers send, and the inbox they use
ConcTexts == { << "h", Newline >> }
ConcTargets == { Designer }

\* str(uuid.uuid4()): a fresh identifier for every message
Uuid(n) == << "u", ToString(n) >>
\* datetime.now(timezone.utc).isoformat()
Timestamp(n) == << "T", ToString(n) >>

\* the message_obj append_message builds
MessageObj(n, target, sender, message, sourcePath) ==
    << << K_id, Uuid(n) >>,
       << K_timestamp, Timestamp(n) >>,
       << K_sender, sender >>,
       << K_target, target >>,
       << K_message, message >>,
       << K_source_path, sourcePath >> >>

\* FileAfterAppend for a file opened with "w": earlier lines are lost
FileAfterAppendTruncates(file, obj) ==
    [ exists |-> TRUE, text |-> json_dumps(obj) \o << Newline >> ]

\* f.write(json.dumps(message_obj) + "\n") on the file opened with "a"
FileAfterAppend(file, obj) ==
    [ exists |-> TRUE, text |-> file.text \o json_dumps(obj) \o << Newline >> ]

\* append_message(target_session, sender, message, source_path)
append_message(target, sender, message, sourcePath) ==
    LET obj == MessageObj(Len(appended) + 1, target, sender, message, sourcePath) IN
    /\ messages_file' = FileAfterAppend(messages_file, obj)
    /\ appended' = Append(appended, obj)

\* the loop body of read_pending_messages over the lines from position i
\* the call returned the list `messages`
Returned(messages) == [ raised |-> FALSE, messages |-> messages ]
\* the call was left by an exception other than JSONDecodeError
AttributeError == [ raised |-> TRUE, messages |-> << >> ]

\* lines 88-91 for a line json.loads decoded: message_obj.get("target")
\* exists only on a dict
ScanLine(parsed, rest, session_name) ==
    IF ~ parsed.dict THEN AttributeError
    ELSE IF rest.raised THEN rest
    ELSE IF DictGet(parsed.value, K_target) = session_name
         THEN Returned(<< parsed.value >> \o rest.messages)
    ELSE rest

\* the loop of read_pending_messages over the lines from position i
RECURSIVE ScanLines(_, _, _)
ScanLines(lines, i, session_name) ==
    IF i > Len(lines) THEN Returned(<< >>)
    ELSE LET line == Strip(lines[i])
             parsed == json_loads(line)
             rest == ScanLines(lines, i + 1, session_name)
         IN  IF line = << >> THEN rest
             ELSE IF ~ parsed.ok THEN rest
             ELSE ScanLine(parsed, rest, session_name)

\* read_pending_messages(session_name) on the file's contents
ReadFile(file, session_name) ==
    IF ~ file.exists THEN Returned(<< >>)
    ELSE ScanLines(Lines(file.text), 1, session_name)

\* read_pending_messages(session_name): the list it returns
read_pending_messages(session_name) ==
    ReadFile(messages_file, session_name).messages

\* a caller appends a message
AppendMessage ==
    /\ Len(appended) < MaxMessages
    /\ \E t \in QueueTargets, snd \in { << "a" >> }, m \in Texts :
          append_message(t, snd, m, SourcePath)
    /\ UNCHANGED << otherVars, store, mtimeChanged, envVars, toolVars, uiVars, lastRead, panes, sent >>

\* a caller reads the inbox of a session
ReadPendingMessages ==
    /\ \E t \in QueueTargets :
          lastRead' = [ target |-> t, messages |-> read_pending_messages(t),
                        raised |-> ReadFile(messages_file, t).raised ]
    /\ UNCHANGED << otherVars, store, mtimeChanged, envVars, toolVars, uiVars,
                    messages_file, appended, panes, sent >>

(***************************************************************************)
(* Processes sharing the queue file: append_message and                    *)
(* read_pending_messages step by step, with flock on MESSAGES_FILE         *)
(***************************************************************************)
QProcs == 1..NumQueueProcs

NoHolder == 0

IdleProc == [ pc |-> "idle", obj |-> << >>, left |-> << >>, target |-> NoName, text |-> << >> ]

\* the line append_message writes for a message object
LineOf(obj) == json_dumps(obj) \o << Newline >>

\* lines 37-50: build message_obj, open(MESSAGES_FILE, "a") creates the file
AppendOpen(p) ==
    /\ qproc[p].pc = "idle"
    /\ issued < MaxAppends
    /\ \E t \in ConcTargets, m \in ConcTexts :
          LET obj == MessageObj(issued + 1, t, << "a" >>, m, SourcePath) IN
          qproc' = [ qproc EXCEPT ![p] = [ IdleProc EXCEPT !.pc = "a_opened", !.obj = obj,
                                                          !.left = LineOf(obj) ] ]
    /\ issued' = issued + 1
    /\ messages_file' = [ messages_file EXCEPT !.exists = TRUE ]
    /\ UNCHANGED << othersOfLock, store, mtimeChanged, envVars, toolVars, uiVars, appended, lastRead,
                    panes, sent, flock >>

\* LockEx that returns at once, whoever holds the lock
LockExNoWait(p) ==
    /\ qproc[p].pc = "a_opened"
    /\ flock' = [ flock EXCEPT !.ex = p ]
    /\ qproc' = [ qproc EXCEPT ![p].pc = "a_locked" ]
    /\ UNCHANGED << othersOfLock, store, mtimeChanged, envVars, toolVars, uiVars, msgVars, issued >>

\* line 52: fcntl.flock(LOCK_EX) returns when nobody else holds the lock
LockEx(p) ==
    /\ qproc[p].pc = "a_opened"
    /\ flock.ex = NoHolder
    /\ flock.sh = { }
    /\ flock' = [ flock EXCEPT !.ex = p ]
    /\ qproc' = [ qproc EXCEPT ![p].pc = "a_locked" ]
    /\ UNCHANGED << othersOfLock, store, mtimeChanged, envVars, toolVars, uiVars, msgVars, issued >>

\* how much of the pending bytes one write(2) on the O_APPEND descriptor takes
WriteSizes(left) == { Len(left) } \cup { n \in { Len(left) \div 2 } : n > 0 }

\* lines 55-56: f.write(...); f.flush(): the line reaches the end of the file
\* in one write(2) or in several
AppendWrite(p) ==
    /\ qproc[p].pc = "a_locked"
    /\ \E n \in WriteSizes(qproc[p].left) :
          LET rest == SubSeq(qproc[p].left, n + 1, Len(qproc[p].left)) IN
          /\ messages_file' = [ messages_file EXCEPT
                                   !.text = @ \o SubSeq(qproc[p].left, 1, n) ]
          /\ qproc' = [ qproc EXCEPT ![p].left = rest,
                                     ![p].pc = IF rest = << >> THEN "a_flushed" ELSE @ ]
          /\ appended' = IF rest = << >> THEN Append(appended, qproc[p].obj) ELSE appended
    /\ UNCHANGED << othersOfLock, store, mtimeChanged, envVars, toolVars, uiVars, lastRead, panes, sent,
                    flock, issued >>

\* lines 57-61: flock(LOCK_UN), close, return the id
UnlockEx(p) ==
    /\ qproc[p].pc = "a_flushed"
    /\ flock' = [ flock EXCEPT !.ex = IF @ = p THEN NoHolder ELSE @ ]
    /\ qproc' = [ qproc EXCEPT ![p] = IdleProc ]
    /\ UNCHANGED << othersOfLock, store, mtimeChanged, envVars, toolVars, uiVars, msgVars, issued >>

\* lines 74-79: return [] when the file is absent, else open it for reading
ReadOpen(p) ==
    /\ qproc[p].pc = "idle"
    /\ \E t \in ConcTargets :
          IF ~ messages_file.exists
          THEN /\ lastRead' = [ target |-> t, messages |-> << >>, raised |-> FALSE ]
               /\ UNCHANGED qproc
          ELSE /\ qproc' = [ qproc EXCEPT ![p] = [ IdleProc EXCEPT !.pc = "r_opened",
                                                                  !.target = t ] ]
               /\ UNCHANGED lastRead
    /\ UNCHANGED << othersOfLock, store, mtimeChanged, envVars, toolVars, uiVars, messages_file, appended,
                    panes, sent, flock, issued >>

\* line 81: fcntl.flock(LOCK_SH) returns when nobody holds the lock exclusively
LockSh(p) ==
    /\ qproc[p].pc = "r_opened"
    /\ flock.ex = NoHolder
    /\ flock' = [ flock EXCEPT !.sh = @ \cup { p } ]
    /\ qproc' = [ qproc EXCEPT ![p].pc = "r_locked" ]
    /\ UNCHANGED << othersOfLock, store, mtimeChanged, envVars, toolVars, uiVars, msgVars, issued >>

\* lines 83-94: the loop reads the file's lines
ReadScan(p) ==
    /\ qproc[p].pc = "r_locked"
    /\ qproc' = [ qproc EXCEPT ![p].pc = "r_read", ![p].text = messages_file.text ]
    /\ UNCHANGED << othersOfLock, store, mtimeChanged, envVars, toolVars, uiVars, msgVars, flock, issued >>

\* lines 95-99: flock(LOCK_UN), close, return messages
UnlockSh(p) ==
    /\ qproc[p].pc = "r_read"
    /\ flock' = [ flock EXCEPT !.sh = @ \ { p } ]
    /\ LET r == ReadFile([ exists |-> TRUE, text |-> qproc[p].text ], qproc[p].target) IN
          lastRead' = [ target |-> qproc[p].target, messages |-> r.messages,
                        raised |-> r.raised ]
    /\ qproc' = [ qproc EXCEPT ![p] = IdleProc ]
    /\ UNCHANGED << othersOfLock, store, mtimeChanged, envVars, toolVars, uiVars, messages_file, appended,
                    panes, sent, issued >>

(***************************************************************************)
(* Pairing (cerb_code/lib/tmux_agent.py, toggle_pairing) on the sessions   *)
(* of one project: a designer working in source_path and two executors,    *)
(* each in its own worktree                                                *)
(***************************************************************************)
PairSessions == Names
Executors == PairSessions \ { Designer }

Absent == [ kind |-> "absent", git |-> "", to |-> NoName ]
\* a directory whose .git is a real directory ("dir") or a symlink ("symlink")
Dir(git) == [ kind |-> "dir", git |-> git, to |-> NoName ]
\* a symlink to the worktree of a session
LinkTo(name) == [ kind |-> "link", git |-> "", to |-> name ]

\* Path.exists(): a symlink to a worktree exists, the worktree being there
Exists(entry) == entry.kind # "absent"

\* `resolved_git`: the target of `.git` if it is a symlink, else the path
\* {dir}/.git itself; `at` names the directory ("source" or "backup")
ResolvedGit(entry, at) ==
    IF entry.kind = "dir" /\ entry.git = "symlink" THEN "stable" ELSE at

\* the filesystem and the flags toggle_pairing works on
PairState == [ fs |-> fs, gitFile |-> gitFile, paired |-> paired ]

\* which filesystem steps of one call succeed
StepOutcomes ==
    [ rename : BOOLEAN, write : BOOLEAN, symlink : BOOLEAN, unlink : BOOLEAN,
      restore : BOOLEAN, rollback : BOOLEAN ]

ReturnsTrue(st) == [ st |-> st, outcome |-> "true" ]
ReturnsFalse(st) == [ st |-> st, outcome |-> "false" ]
Raises(st) == [ st |-> st, outcome |-> "raised" ]

\* lines 633-662: switching to paired mode
EnablePairing(st, name, f) ==
    IF Exists(st.fs.backup) THEN ReturnsFalse(st)
    ELSE IF ~ (f.rename /\ Exists(st.fs.source)) THEN ReturnsFalse(st)
    ELSE LET moved == [ st EXCEPT !.fs = [ source |-> Absent, backup |-> st.fs.source ] ]
             written == [ moved EXCEPT
                            !.gitFile[name] = ResolvedGit(moved.fs.backup, "backup") ]
             linked == [ written EXCEPT !.fs.source = LinkTo(name) ]
         IN  IF ~ f.write
             THEN IF f.rollback THEN ReturnsFalse(st) ELSE Raises(moved)
             ELSE IF ~ f.symlink THEN Raises(written)
             ELSE ReturnsTrue([ linked EXCEPT !.paired[name] = TRUE ])

\* DisablePairing that leaves the worktree's .git file as pairing wrote it
DisablePairingKeepsGitFile(st, name, f) ==
    IF ~ Exists(st.fs.backup) THEN ReturnsFalse(st)
    ELSE IF st.fs.source.kind # "link" THEN ReturnsFalse(st)
    ELSE IF ~ f.unlink THEN Raises(st)
    ELSE LET unlinked == [ st EXCEPT !.fs.source = Absent ]
             restored == [ st EXCEPT !.fs = [ source |-> st.fs.backup, backup |-> Absent ] ]
         IN  IF ~ f.restore THEN Raises(unlinked)
             ELSE IF ~ f.write THEN ReturnsFalse(restored)
             ELSE ReturnsTrue([ restored EXCEPT !.paired[name] = FALSE ])

\* lines 664-690: switching to unpaired mode
DisablePairing(st, name, f) ==
    IF ~ Exists(st.fs.backup) THEN ReturnsFalse(st)
    ELSE IF st.fs.source.kind # "link" THEN ReturnsFalse(st)
    ELSE IF ~ f.unlink THEN Raises(st)
    ELSE LET unlinked == [ st EXCEPT !.fs.source = Absent ]
             restored == [ st EXCEPT !.fs = [ source |-> st.fs.backup, backup |-> Absent ] ]
             written == [ restored EXCEPT
                            !.gitFile[name] = ResolvedGit(restored.fs.source, "source") ]
         IN  IF ~ f.restore THEN Raises(unlinked)
             ELSE IF ~ f.write THEN ReturnsFalse(restored)
             ELSE ReturnsTrue([ written EXCEPT !.paired[name] = FALSE ])

\* TmuxProtocol.toggle_pairing(session): the state it leaves and what it
\* returns; source == worktree for the designer
toggle_pairing(st, name, f) ==
    IF name = Designer THEN ReturnsFalse(st)
    ELSE IF ~ st.paired[name] THEN EnablePairing(st, name, f)
    ELSE DisablePairing(st, name, f)

\* the record kept of one call
ToggleRecord(name, before, r) ==
    [ session |-> name, before |-> before, after |-> r.st, outcome |-> r.outcome,
      enabling |-> ~ before.paired[name] ]

\* session.toggle_pairing() called on a session object, as the tests do
TogglePairing ==
    /\ Len(toggles) < MaxToggles
    /\ \E name \in PairSessions, f \in StepOutcomes :
          LET r == toggle_pairing(PairState, name, f) IN
          /\ fs' = r.st.fs
          /\ gitFile' = r.st.gitFile
          /\ paired' = r.st.paired
          /\ toggles' = Append(toggles, ToggleRecord(name, PairState, r))
    /\ UNCHANGED << othersOfPair, store, mtimeChanged, envVars, toolVars, uiVars, msgVars,
                    paired_session_id >>

\* app.py 445-496: action_toggle_pairing and _toggle_pairing_task
TogglePairingTask ==
    /\ Len(toggles) < MaxToggles
    /\ \E name \in PairSessions, f \in StepOutcomes :
          LET is_paired == (paired_session_id = SessionId(name))
              before == [ PairState EXCEPT !.paired[name] = is_paired ]
              r == toggle_pairing(before, name, f)
          IN  /\ fs' = r.st.fs
              /\ gitFile' = r.st.gitFile
              /\ paired' = r.st.paired
              /\ toggles' = Append(toggles, ToggleRecord(name, before, r))
              /\ paired_session_id' =
                    IF r.outcome # "true" THEN paired_session_id
                    ELSE IF is_paired THEN NoName
                    ELSE SessionId(name)
    /\ UNCHANGED << othersOfPair, store, mtimeChanged, envVars, toolVars, uiVars, msgVars >>

(***************************************************************************)
(* The monitor service (orchestra/backend/monitor.py) and its monitors     *)
(* (orchestra/lib/monitor.py)                                              *)
(***************************************************************************)
HookRequests == 1..NumHookRequests
HookSessions == { << "a" >>, << "b" >> }

NoMonitor == 0
NoEvent == 0

\* a request slot that handles nothing; status is what its last request was
\* answered
IdleRequest == [ pc |-> "idle", session_id |-> NoName, evt |-> NoEvent,
                 monitor |-> NoMonitor, status |-> 0 ]

\* BaseMonitor(): no client, no task, an empty queue
NewMonitor(session_id) ==
    [ session_id |-> session_id,
      client |-> FALSE,      \* self.client is not None
      task |-> "none",       \* where _run is: none, startup, waiting, collecting,
                             \* sending, or finished (left by an exception)
      queue |-> << >>,       \* self.queue
      unfinished |-> 0,      \* the queue's count of events not yet marked done
      batch |-> << >>,       \* the batch _run is collecting
      enqueued |-> << >>,    \* the events put on the queue, in order
      puts |-> << >>,        \* the outcome of every enqueue, in order
      taken |-> 0,           \* events _run has taken from the queue
      prompts |-> << >>,     \* the combined prompts the agent was sent
      failed |-> 0,          \* batches whose sending raised
      batch_start |-> 0,     \* time() when the batch got its first event
      wait_start |-> 0,      \* time() when the wait_for of line 135 began
      ended |-> << >> ]      \* size, age and last wait of every batch at the
                             \* end of its collection

\* get_session(session_id, source_path): the session exists in the store
SessionKnown(session_id) ==
    \E i \in 1..Len(Flatten(store)) : SessionId(Flatten(store)[i].session_name) = session_id

\* request bodies: an event with a source_path, an event without, an event
\* with an empty source_path, a cut-off document, and a JSON number
HookBodies ==
    { json_dumps(<< << K_source_path, SourcePath >> >>),
      json_dumps(<< << K_message, << "h" >> >> >>),
      json_dumps(<< << K_source_path, << >> >> >>),
      << "{" >>,
      << "1" >> }

\* json.loads of each body
Decoded == [ body \in HookBodies |-> json_loads(body) ]

\* lines 94-106: the status the handler answers before it looks for a
\* monitor, or 0 when it goes on.  A body that does not decode, and one
\* without (or with an empty) source_path, raise HTTPException(400);
\* `data.get` on a document that is not a dict raises AttributeError, which
\* nothing catches: the server answers 500.
HookRejects(body) ==
    LET data == Decoded[body] IN
    IF ~ data.ok THEN 400
    ELSE IF ~ data.dict THEN 500
    ELSE IF DictGet(data.value, K_source_path) \in { None, << >> } THEN 400
    ELSE 0

\* lines 92-115: the body is read and decoded and the event made
HookPost(r) ==
    /\ hreq[r].pc = "idle"
    /\ posted < MaxHooks
    /\ posted' = posted + 1
    /\ \E sid \in HookSessions, body \in HookBodies :
          hreq' = [ hreq EXCEPT ![r] =
                      IF HookRejects(body) = 0
                      THEN [ IdleRequest EXCEPT !.pc = "route", !.session_id = sid,
                                                !.evt = posted + 1 ]
                      ELSE [ IdleRequest EXCEPT !.status = HookRejects(body) ] ]
    /\ UNCHANGED << othersOfMon, store, mtimeChanged, envVars, toolVars, uiVars, msgVars,
                    _monitors, monitors >>

\* BaseMonitor.enqueue that puts the event whatever the queue holds
EnqueueUnbounded(m, evt) ==
    [ m EXCEPT !.queue = Append(@, evt),
               !.unfinished = @ + 1,
               !.enqueued = Append(@, evt),
               !.puts = Append(@, [ status |-> 200, before |-> Len(m.queue),
                                    after |-> Len(m.queue) + 1 ]) ]

\* lines 119-124 with BaseMonitor.enqueue: put_nowait raises QueueFull on a
\* full queue, answered 503; else the event is queued, answered 200
Enqueue(m, evt) ==
    IF Len(m.queue) >= QueueCapacity
    THEN [ m EXCEPT !.puts = Append(@, [ status |-> 503, before |-> Len(m.queue),
                                          after |-> Len(m.queue) ]) ]
    ELSE [ m EXCEPT !.queue = Append(@, evt),
                    !.unfinished = @ + 1,
                    !.enqueued = Append(@, evt),
                    !.puts = Append(@, [ status |-> 200, before |-> Len(m.queue),
                                         after |-> Len(m.queue) + 1 ]) ]

\* the status the handler answers after Enqueue
StatusOf(m) == m.puts[Len(m.puts)].status

\* lines 117-124 and 64-81: the registry is looked up; a monitor found there
\* gets the event at once; else a monitor is constructed (404 when the
\* session is not in the store) and its start awaited
HookRoute(r) ==
    /\ hreq[r].pc = "route"
    /\ LET sid == hreq[r].session_id
           found == _monitors[sid]
       IN  IF found # NoMonitor
           THEN LET m == Enqueue(monitors[found], hreq[r].evt) IN
                /\ monitors' = [ monitors EXCEPT ![found] = m ]
                /\ hreq' = [ hreq EXCEPT ![r] = [ IdleRequest EXCEPT !.status = StatusOf(m) ] ]
           ELSE IF ~ SessionKnown(sid)
           THEN /\ hreq' = [ hreq EXCEPT ![r] = [ IdleRequest EXCEPT !.status = 404 ] ]
                /\ UNCHANGED monitors
           ELSE /\ monitors' = Append(monitors, NewMonitor(sid))
                /\ hreq' = [ hreq EXCEPT ![r] = [ @ EXCEPT !.pc = "starting",
                                                           !.monitor = Len(monitors) + 1 ] ]
    /\ UNCHANGED << othersOfMon, store, mtimeChanged, envVars, toolVars, uiVars, msgVars,
                    _monitors, posted >>

\* monitor.py (lib) 84-86 and (backend) 78-124: the client has connected, the
\* consumer task is created, the monitor is stored in the registry and gets
\* the event
HookStarted(r) ==
    /\ hreq[r].pc = "starting"
    /\ LET id == hreq[r].monitor
           started == [ monitors[id] EXCEPT !.client = TRUE, !.task = "startup" ]
           m == Enqueue(started, hreq[r].evt)
       IN  /\ monitors' = [ monitors EXCEPT ![id] = m ]
           /\ _monitors' = [ _monitors EXCEPT ![hreq[r].session_id] = id ]
           /\ hreq' = [ hreq EXCEPT ![r] = [ IdleRequest EXCEPT !.status = StatusOf(m) ] ]
    /\ UNCHANGED << othersOfMon, store, mtimeChanged, envVars, toolVars, uiVars, msgVars,
                    posted >>

\* what _run leaves when an exception leaves it
Finished(m) == [ m EXCEPT !.task = "finished", !.batch = << >> ]

\* lines 108-113: the startup message and the agent's reply
RunStartup(id) ==
    /\ monitors[id].task = "startup"
    /\ \E ok \in BOOLEAN :
          monitors' = [ monitors EXCEPT ![id] =
                          IF ok THEN [ @ EXCEPT !.task = "waiting" ] ELSE Finished(@) ]
    /\ UNCHANGED << othersOfMon, store, mtimeChanged, envVars, toolVars, uiVars, msgVars,
                    _monitors, hreq, posted >>

\* batch.append(evt) that puts the event in front
TakeInFront(m) ==
    [ m EXCEPT !.batch = << Head(m.queue) >> \o @,
               !.queue = Tail(@),
               !.taken = @ + 1,
               !.task = "collecting" ]

\* lines 121-122 and 135-136: queue.get() and batch.append
Take(m) ==
    [ m EXCEPT !.batch = Append(@, Head(m.queue)),
               !.queue = Tail(@),
               !.taken = @ + 1,
               !.task = "collecting" ]

\* lines 118-123: the first event of a batch, awaited without a timeout
RunGetFirst(id) ==
    /\ monitors[id].task = "waiting"
    /\ monitors[id].queue # << >>
    /\ monitors' = [ monitors EXCEPT ![id] = Take(@) ]
    /\ UNCHANGED << othersOfMon, store, mtimeChanged, envVars, toolVars, uiVars, msgVars,
                    _monitors, hreq, posted >>

\* lines 126-136: another event within the wait time, the batch not being full
RunCollect(id) ==
    /\ monitors[id].task = "collecting"
    /\ Len(monitors[id].batch) < MaxBatchSize
    /\ monitors[id].queue # << >>
    /\ monitors' = [ monitors EXCEPT ![id] = Take(@) ]
    /\ UNCHANGED << othersOfMon, store, mtimeChanged, envVars, toolVars, uiVars, msgVars,
                    _monitors, hreq, posted >>

\* lines 130-131 and 137-138: the batch is full or too old, or no event came
\* within the wait time
RunBatchClosed(id) ==
    /\ monitors[id].task = "collecting"
    /\ monitors' = [ monitors EXCEPT ![id].task = "sending" ]
    /\ UNCHANGED << othersOfMon, store, mtimeChanged, envVars, toolVars, uiVars, msgVars,
                    _monitors, hreq, posted >>

\* a dispatch after which the batch is not begun anew
DispatchedKeepsBatch(m) ==
    [ m EXCEPT !.prompts = Append(@, m.batch), !.task = "waiting" ]

\* lines 143-148 and 116-118: the batch went to the agent as one combined
\* prompt; the loop goes round and begins an empty batch
Dispatched(m) ==
    [ m EXCEPT !.prompts = Append(@, m.batch), !.batch = << >>, !.task = "waiting" ]

\* lines 141-151: the combined prompt is sent and answered, or that raises;
\* either way every event of the batch is marked done; there is no except
\* clause, so an exception leaves _run
RunSend(id) ==
    /\ monitors[id].task = "sending"
    /\ \E ok \in BOOLEAN :
          LET m == monitors[id]
              done == [ m EXCEPT !.unfinished = @ - Len(m.batch) ]
          IN  monitors' = [ monitors EXCEPT ![id] =
                              IF ok
                              THEN Dispatched(done)
                              ELSE [ Finished(done) EXCEPT !.failed = @ + 1 ] ]
    /\ UNCHANGED << othersOfMon, store, mtimeChanged, envVars, toolVars, uiVars, msgVars,
                    _monitors, hreq, posted >>

\* --- the consumer loop with the event loop's clock ---
BATCH_WAIT_TIME == 10
MAX_BATCH_SIZE == 10
MAX_BATCH_WAIT == 20

\* the age of the batch in hand
BatchAge(m) == time - m.batch_start

\* the collection of the batch is over: what it had come to
EndCollection(m) ==
    [ m EXCEPT !.task = "sending",
               !.ended = Append(@, [ size |-> Len(m.batch), age |-> BatchAge(m),
                                     waited |-> IF m.task = "polling"
                                                THEN time - m.wait_start ELSE 0 ]) ]

\* lines 118-123: the first event of a batch; batch_start is the time then
TimedGetFirst(id) ==
    /\ monitors[id].task = "waiting"
    /\ monitors[id].queue # << >>
    /\ monitors' = [ monitors EXCEPT ![id] = [ Take(@) EXCEPT !.batch_start = time ] ]
    /\ UNCHANGED << othersOfTime, store, mtimeChanged, envVars, toolVars, uiVars, msgVars,
                    _monitors, hreq, posted, time >>

\* lines 126-135: at the top of the inner loop the batch's size and age are
\* tested; the loop is left, or wait_for begins
TimedCheck(id) ==
    /\ monitors[id].task = "collecting"
    /\ LET m == monitors[id] IN
       monitors' = [ monitors EXCEPT ![id] =
                       IF Len(m.batch) >= MAX_BATCH_SIZE \/ BatchAge(m) >= MAX_BATCH_WAIT
                       THEN EndCollection(m)
                       ELSE [ m EXCEPT !.task = "polling", !.wait_start = time ] ]
    /\ UNCHANGED << othersOfTime, store, mtimeChanged, envVars, toolVars, uiVars, msgVars,
                    _monitors, hreq, posted, time >>

\* lines 135-136: an event came before the timeout
TimedWaitGot(id) ==
    /\ monitors[id].task = "polling"
    /\ monitors[id].queue # << >>
    /\ time - monitors[id].wait_start <= BATCH_WAIT_TIME
    /\ monitors' = [ monitors EXCEPT ![id] = Take(@) ]
    /\ UNCHANGED << othersOfTime, store, mtimeChanged, envVars, toolVars, uiVars, msgVars,
                    _monitors, hreq, posted, time >>

\* lines 137-138: wait_for timed out
TimedWaitTimeout(id) ==
    /\ monitors[id].task = "polling"
    /\ time - monitors[id].wait_start >= BATCH_WAIT_TIME
    /\ monitors' = [ monitors EXCEPT ![id] = EndCollection(@) ]
    /\ UNCHANGED << othersOfTime, store, mtimeChanged, envVars, toolVars, uiVars, msgVars,
                    _monitors, hreq, posted, time >>

\* a consumer task that can run is run before the clock moves on: it is at
\* the top of the inner loop, an event is there for its queue.get(), or its
\* wait_for has reached the timeout
Runnable(m) ==
    \/ m.task = "collecting"
    \/ m.task \in { "waiting", "polling" } /\ m.queue # << >>
    \/ m.task = "polling" /\ time - m.wait_start >= BATCH_WAIT_TIME

\* a second passes.  Only a consumer inside wait_for depends on the clock,
\* so the seconds that pass while none is there are not counted.
Tick ==
    /\ time < MaxTime
    /\ \A id \in 1..Len(monitors) : ~ Runnable(monitors[id])
    /\ \E id \in 1..Len(monitors) : monitors[id].task = "polling"
    /\ time' = time + 1
    /\ UNCHANGED << othersOfTime, store, mtimeChanged, envVars, toolVars, uiVars, msgVars,
                    monVars >>

\* --- the shutdown handler (backend 84-88) and BaseMonitor.stop ---

\* task.cancel() on a task that has not finished: CancelledError is thrown
\* into _run at its await; inside the try of lines 141-151 the finally
\* clause marks the batch's events done on the way out
Cancelled(m) ==
    [ m EXCEPT !.task = "cancelled",
               !.batch = << >>,
               !.unfinished = IF m.task = "sending" THEN @ - Len(m.batch) ELSE @ ]

\* BaseMonitor.stop, lines 88-99.  A task that an exception has ended hands
\* that exception to `await self.task`, where `except Exception` drops it;
\* the task and the client are then cleared.  A task that was running is
\* cancelled, and `await self.task` raises CancelledError, which is a
\* BaseException and passes `except Exception`: lines 96-99 are not run.
stop(m) ==
    IF m.task = "none"
    THEN [ raised |-> FALSE, m |-> [ m EXCEPT !.client = FALSE ] ]
    ELSE IF m.task \in { "finished", "cancelled" }
    THEN [ raised |-> FALSE, m |-> [ m EXCEPT !.task = "none", !.client = FALSE ] ]
    ELSE [ raised |-> TRUE, m |-> Cancelled(m) ]

\* line 86: list(_monitors.items()), taken when the server has stopped
\* serving requests
ShutdownBegin ==
    /\ down.pc = "idle"
    /\ \A r \in HookRequests : hreq[r].pc = "idle"
    /\ LET items == { sid \in HookSessions : _monitors[sid] # NoMonitor } IN
       down' = [ pc |-> "stopping", pending |-> items,
                 registered |-> { _monitors[sid] : sid \in items } ]
    /\ UNCHANGED << othersOfDown, store, mtimeChanged, envVars, toolVars, uiVars, msgVars,
                    monVars >>

\* lines 86-88: the next item's monitor is stopped and its entry popped; an
\* exception of stop leaves the handler
ShutdownStop ==
    /\ down.pc = "stopping"
    /\ \E sid \in down.pending :
          LET id == _monitors[sid]
              r == stop(monitors[id])
          IN  /\ monitors' = [ monitors EXCEPT ![id] = r.m ]
              /\ IF r.raised
                 THEN /\ down' = [ down EXCEPT !.pc = "raised" ]
                      /\ UNCHANGED _monitors
                 ELSE /\ down' = [ down EXCEPT !.pending = @ \ { sid } ]
                      /\ _monitors' = [ _monitors EXCEPT ![sid] = NoMonitor ]
    /\ UNCHANGED << othersOfDown, store, mtimeChanged, envVars, toolVars, uiVars, msgVars,
                    hreq, posted >>

\* the loop of line 86 is over
ShutdownReturn ==
    /\ down.pc = "stopping"
    /\ down.pending = { }
    /\ down' = [ down EXCEPT !.pc = "returned" ]
    /\ UNCHANGED << othersOfDown, store, mtimeChanged, envVars, toolVars, uiVars, msgVars,
                    monVars >>

(***************************************************************************)
(* What a tool call hands back                                             *)
(***************************************************************************)
NoResult == << >>
\* an exception that leaves the tool function instead of a returned string
Raised == << "<exception>" >>
ParentNotFound(name) == << "Error: Parent session '", name, "' not found" >>
Spawned(child, parentName) ==
    << "Successfully spawned child session '", child, "' under parent '", parentName, "'" >>

IsString(r) == r # NoResult /\ r # Raised

NoSend == [ seq |-> 0, tool |-> "", session_name |-> NoName, sender |-> NoName,
            message |-> << >>, codes |-> << >>, delivered |-> "",
            result |-> NoResult ]

SessionNotFound(name) == << "Error: Session '", name, "' not found" >>
Sent(name) == << "Successfully sent message to session '", name, "'" >>
Queued(name, id) ==
    << "Message queued for designer session '", name, "' (ID: ", id, ")" >>
SendFailed(name) == << "Error: Failed to send message to session '", name, "'" >>

IsError(r) ==
    r # NoResult /\ r[1] \in { "Error: Parent session '", "Error: Session '",
                              "Error: Failed to send message to session '" }

NoArgs == [ parent |-> NoName, child |-> NoName ]

InFlight == { c \in Calls : pc[c] # "idle" }

(***************************************************************************)
(* spawn_subagent (cerb_code/runners/mcp_server.py)                        *)
(***************************************************************************)
\* the tool is called
Invoke(c, limit) ==
    /\ pc[c] = "idle"
    /\ NodeCount(store) + Cardinality(InFlight) < limit
    /\ \E p \in Names, ch \in Names :
          args' = [ args EXCEPT ![c] = [ parent |-> p, child |-> ch ] ]
    /\ pc' = [ pc EXCEPT ![c] = "load" ]
    /\ result' = [ result EXCEPT ![c] = NoResult ]
    /\ UNCHANGED << otherVars, msgVars, uiVars, mtimeChanged, store, worktrees, files, terminals, sessions, parent >>

\* sessions = load_sessions(protocol=protocol, project_dir=source_path)
Load(c) ==
    /\ pc[c] = "load"
    /\ sessions' = [ sessions EXCEPT ![c] = load_sessions ]
    /\ pc' = [ pc EXCEPT ![c] = "find" ]
    /\ UNCHANGED << otherVars, msgVars, uiVars, mtimeChanged, store, worktrees, files, terminals, args, parent, result >>

\* the result of the lookup: an early return when the parent is missing
FindResult(c, path) ==
    IF path = NoPath
    THEN /\ pc' = [ pc EXCEPT ![c] = "done" ]
         /\ result' = [ result EXCEPT ![c] = ParentNotFound(args[c].parent) ]
         /\ parent' = parent
    ELSE /\ pc' = [ pc EXCEPT ![c] = "prepare" ]
         /\ parent' = [ parent EXCEPT ![c] = path ]
         /\ result' = result

\* Find without the early return: a missing parent falls through to the save
FindFallsThrough(c) ==
    /\ pc[c] = "find"
    /\ IF find_session(sessions[c], args[c].parent) = NoPath
       THEN /\ pc' = [ pc EXCEPT ![c] = "save" ]
            /\ UNCHANGED << parent, result >>
       ELSE FindResult(c, find_session(sessions[c], args[c].parent))
    /\ UNCHANGED << otherVars, msgVars, uiVars, mtimeChanged, store, worktrees, files, terminals, args, sessions >>

\* parent = find_session(sessions, parent_session_id); if not parent: return
Find(c) ==
    /\ pc[c] = "find"
    /\ FindResult(c, find_session(sessions[c], args[c].parent))
    /\ UNCHANGED << otherVars, msgVars, uiVars, mtimeChanged, store, worktrees, files, terminals, args, sessions >>

\* a step of spawn_child that fails raises; nothing in spawn_subagent catches
\* it, so the exception leaves the tool function
SpawnFails(c) ==
    /\ pc' = [ pc EXCEPT ![c] = "done" ]
    /\ result' = [ result EXCEPT ![c] = Raised ]

\* the child object spawn_child has constructed
NewChild(c) ==
    Session(args[c].child, "executor", NodeAt(sessions[c], parent[c]).session_name)

\* SpawnPrepare that registers the child with the parent before preparing it
SpawnPrepareAppendsFirst(c) ==
    /\ pc[c] = "prepare"
    /\ sessions' = [ sessions EXCEPT ![c] = AppendChild(@, parent[c], NewChild(c)) ]
    /\ \/ /\ worktrees' = worktrees \cup { SessionId(args[c].child) }
          /\ pc' = [ pc EXCEPT ![c] = "write" ]
          /\ result' = result
       \/ /\ SpawnFails(c)
          /\ worktrees' = worktrees
    /\ UNCHANGED << otherVars, msgVars, uiVars, mtimeChanged, store, files, terminals, args, parent >>

\* spawn_child (a)+(b): construct the child, child.prepare()
SpawnPrepare(c) ==
    /\ pc[c] = "prepare"
    /\ \/ /\ worktrees' = worktrees \cup { SessionId(args[c].child) }
          /\ pc' = [ pc EXCEPT ![c] = "write" ]
          /\ result' = result
       \/ /\ SpawnFails(c)
          /\ worktrees' = worktrees
    /\ UNCHANGED << otherVars, msgVars, uiVars, mtimeChanged, store, files, terminals, args, sessions, parent >>

\* spawn_child (c): instructions.md, orchestra.md, CLAUDE.md, settings.json
SpawnWrite(c) ==
    /\ pc[c] = "write"
    /\ \/ /\ files' = files \cup { SessionId(args[c].child) }
          /\ pc' = [ pc EXCEPT ![c] = "start" ]
          /\ result' = result
       \/ /\ SpawnFails(c)
          /\ files' = files
    /\ UNCHANGED << otherVars, msgVars, uiVars, mtimeChanged, store, worktrees, terminals, args, sessions, parent >>


\* spawn_child (d)+(e): child.start(), then self.children.append(child)
SpawnStart(c) ==
    /\ pc[c] = "start"
    /\ \/ /\ terminals' = terminals \cup { SessionId(args[c].child) }
          /\ sessions' = [ sessions EXCEPT
                             ![c] = AppendChild(@, parent[c], NewChild(c)) ]
          /\ pc' = [ pc EXCEPT ![c] = "save" ]
          /\ result' = result
       \/ /\ SpawnFails(c)
          /\ UNCHANGED << terminals, sessions >>
    /\ UNCHANGED << otherVars, msgVars, uiVars, mtimeChanged, store, worktrees, files, args, parent >>

\* Save that reports success without rewriting the document
SaveSkipsWrite(c) ==
    /\ pc[c] = "save"
    /\ pc' = [ pc EXCEPT ![c] = "done" ]
    /\ result' = [ result EXCEPT ![c] = Spawned(args[c].child, args[c].parent) ]
    /\ UNCHANGED << otherVars, msgVars, uiVars, mtimeChanged, store, worktrees, files, terminals, args, sessions, parent >>

\* save_sessions(sessions, project_dir=source_path); return "Successfully ..."
Save(c) ==
    /\ pc[c] = "save"
    /\ store' = save_sessions(sessions[c])
    /\ mtimeChanged' = TRUE
    /\ pc' = [ pc EXCEPT ![c] = "done" ]
    /\ result' = [ result EXCEPT ![c] = Spawned(args[c].child, args[c].parent) ]
    /\ UNCHANGED << otherVars, msgVars, uiVars, worktrees, files, terminals, args, sessions, parent >>

\* the caller has the result; the objects of the call are dropped
Return(c) ==
    /\ pc[c] = "done"
    /\ pc' = [ pc EXCEPT ![c] = "idle" ]
    /\ args' = [ args EXCEPT ![c] = NoArgs ]
    /\ sessions' = [ sessions EXCEPT ![c] = << >> ]
    /\ parent' = [ parent EXCEPT ![c] = NoPath ]
    /\ result' = [ result EXCEPT ![c] = NoResult ]
    /\ UNCHANGED << otherVars, msgVars, uiVars, mtimeChanged, store, worktrees, files, terminals >>

spawn_subagent(c, limit) ==
    \/ Invoke(c, limit)
    \/ Load(c)
    \/ Find(c)
    \/ SpawnPrepare(c)
    \/ SpawnWrite(c)
    \/ SpawnStart(c)
    \/ Save(c)
    \/ Return(c)

(***************************************************************************)
(* Specification of the tool service: concurrent spawn_subagent calls      *)
(***************************************************************************)
Root == Session(Designer, "designer", NoName)

InitLock ==
    /\ flock = [ ex |-> NoHolder, sh |-> { } ]
    /\ qproc = [ p \in QProcs |-> IdleProc ]
    /\ issued = 0

\* git worktree add wrote each worktree's .git file from the real path of
\* the project's git directory; nothing is paired.  `git` says whether the
\* project's .git is a directory or a symlink, `backup` what is at
\* {source_path}.backup
InitPairWith(git, backup) ==
    /\ fs = [ source |-> Dir(git), backup |-> backup ]
    /\ gitFile = [ name \in Executors |-> ResolvedGit(Dir(git), "source") ]
    /\ paired = [ name \in PairSessions |-> FALSE ]
    /\ paired_session_id = NoName
    /\ toggles = << >>

InitPair == InitPairWith("dir", Absent)

InitMon ==
    /\ _monitors = [ sid \in HookSessions |-> NoMonitor ]
    /\ monitors = << >>
    /\ hreq = [ r \in HookRequests |-> IdleRequest ]
    /\ posted = 0

\* the shutdown handler has not been called
InitDown ==
    down = [ pc |-> "idle", pending |-> { }, registered |-> { } ]

\* no control-plane call was made; docker holds no container
NoCall == [ seq |-> 0, op |-> "", session |-> NoName, had_terminal |-> FALSE,
            was |-> { }, docker |-> "", outcome |-> "", prepared |-> FALSE ]

InitCtlWith(docker, ws) ==
    /\ use_docker = docker
    /\ containers = { }
    /\ created = 0
    /\ ctl = NoCall
    /\ prepared = ws

\* the hook forwarder has not run
InitForwarder ==
    fwd = [ pc |-> "idle", runs |-> 0, stdin |-> << >>, env |-> None, git |-> None,
            session_id |-> None, url |-> << >>, post |-> "", exit |-> 0 ]

\* the supervisor runs: the MCP and monitor processes and the orchestra
\* multiplexer server are alive, cleanup_servers has not been called
InitSupervisor ==
    sup = [ pc |-> "running", sessions |-> << >>, log |-> << >>,
            mcp_proc |-> TRUE, monitor_proc |-> TRUE, server |-> TRUE ]

\* a path of the project's repository: nothing, a directory or a file with
\* some content, or a symlink to the stable location
NoEntry == [ kind |-> "absent", content |-> "" ]
GitDir(content) == [ kind |-> "dir", content |-> content ]
GitFile == [ kind |-> "file", content |-> "gitdir" ]
StableLink == [ kind |-> "link", content |-> "stable" ]

\* source_path/.git (git), source_path/.git.backup (backup) and the stable
\* location of the project's basename (stable), before any call
InitRepoWith(git, backup, stable) ==
    repo = [ git |-> git, backup |-> backup, stable |-> stable, calls |-> 0,
             last |-> [ before |-> << >>, outcome |-> "" ] ]

\* the sessions whose designer.md is watched; a path is the work
\* directory of a session, or a file in it
WatchSessions == { << "d" >>, << "a" >> }
WorkDir(sid) == [ dir |-> sid, file |-> "" ]
InDir(sid, filename) == [ dir |-> sid, file |-> filename ]
WatchPaths ==
    { WorkDir(sid) : sid \in WatchSessions }
      \cup { InDir(sid, filename) : sid \in WatchSessions, filename \in { "designer.md", "notes" } }

\* FileWatcher(): no watchers, no task; nothing was changed or notified
InitWatch ==
    watch = [ _watchers |-> [ path \in WatchPaths |-> { } ],
              _task |-> "none", _stop_event |-> FALSE, _should_stop |-> FALSE,
              watch_paths |-> { }, pending |-> { }, changes |-> 0,
              modified |-> [ sid \in WatchSessions |-> 0 ],
              notified |-> [ sid \in WatchSessions |-> 0 ] ]

InitRun ==
    /\ InitForwarder
    /\ InitSupervisor
    /\ InitRepoWith(GitDir("project"), NoEntry, NoEntry)
    /\ InitWatch

InitRest ==
    /\ InitDown
    /\ time = 0
    /\ InitCtlWith(TRUE, { })
    /\ InitRun

InitOther ==
    /\ InitLock
    /\ InitPair
    /\ InitMon
    /\ InitRest

\* the tool service, the UI and the queue before anything was called
InitCore ==
    /\ store \in { << >>, << Root >> }
    /\ worktrees = { SessionId(r.session_name) : r \in { store[i] : i \in 1..Len(store) } }
    /\ files = worktrees
    /\ terminals = worktrees
    /\ pc = [ c \in Calls |-> "idle" ]
    /\ args = [ c \in Calls |-> NoArgs ]
    /\ sessions = [ c \in Calls |-> << >> ]
    /\ parent = [ c \in Calls |-> NoPath ]
    /\ result = [ c \in Calls |-> NoResult ]
    /\ mtimeChanged = FALSE
    /\ uiRoot = store
    /\ uiPc = "idle"
    /\ uiTarget = << >>
    /\ messages_file = [ exists |-> FALSE, text |-> << >> ]
    /\ appended = << >>
    /\ lastRead = [ target |-> NoName, messages |-> << >>, raised |-> FALSE ]
    /\ panes = [ n \in Names |-> << >> ]
    /\ sent = NoSend

Init == InitCore /\ InitOther

\* one designer drives the tool service: calls do not overlap
Next == spawn_subagent(1, MaxNodes)

Spec == Init /\ [][Next]_vars

\* several callers: calls overlap at every file access
NextConc == \E c \in Calls : spawn_subagent(c, MaxConcNodes)

SpecConc == Init /\ [][NextConc]_vars

(***************************************************************************)
(* The UI: session list, sessions.json watcher and delete-session task     *)
(* (cerb_code/frontend/app.py, cerb_code/runners/kerberos.py)              *)
(***************************************************************************)
\* save_session(root, project_dir): the project's entry becomes that root
save_session(root) == << root >>

\* Session.delete(): the control plane kills the terminal session; the
\* worktree (and its files) is removed for sessions other than the designer
SessionDelete(s) ==
    /\ terminals' = terminals \ { SessionId(s.session_name) }
    /\ IF s.agent_type = "designer"
       THEN UNCHANGED << worktrees, files >>
       ELSE /\ worktrees' = worktrees \ { SessionId(s.session_name) }
            /\ files' = files \ { SessionId(s.session_name) }

\* state.remove_child(session_id)
remove_child(list, id) ==
    IF list = << >> THEN list
    ELSE [ list EXCEPT ![1].children =
             SelectSeq(@, LAMBDA ch : SessionId(ch.session_name) # id) ]

\* _remove_session_from_tree(sessions, session_id): the first match in
\* pre-order is popped, with its subtree
RECURSIVE RemoveFrom(_, _, _)
RemoveFrom(list, i, id) ==
    IF i > Len(list) THEN list
    ELSE IF SessionId(list[i].session_name) = id
         THEN SubSeq(list, 1, i - 1) \o SubSeq(list, i + 1, Len(list))
    ELSE LET sub == RemoveFrom(list[i].children, 1, id) IN
         IF sub # list[i].children THEN [ list EXCEPT ![i].children = sub ]
         ELSE RemoveFrom(list, i + 1, id)

_remove_session_from_tree(list, id) == RemoveFrom(list, 1, id)

\* _watch_sessions_file: the file's mtime changed, the tree is reloaded
WatchSessionsFile ==
    /\ mtimeChanged
    /\ uiRoot' = load_sessions
    /\ mtimeChanged' = FALSE
    /\ UNCHANGED << otherVars, store, envVars, toolVars, msgVars, uiPc, uiTarget >>

\* action_delete_session (app.py): the root or one of its children is
\* selected and the delete task is created
ActionDeleteSession ==
    /\ uiPc \in { "idle", "done" }
    /\ uiRoot # << >>
    /\ \E s \in { uiRoot[1] } \cup Children(uiRoot[1]) : uiTarget' = << s >>
    /\ uiPc' = "delete"
    /\ UNCHANGED << otherVars, store, mtimeChanged, envVars, toolVars, msgVars, uiRoot >>

\* _delete_session_task (app.py): await to_thread(session_to_delete.delete)
DeleteTaskDelete ==
    /\ uiPc = "delete"
    /\ SessionDelete(uiTarget[1])
    /\ uiPc' = "save"
    /\ UNCHANGED << otherVars, store, mtimeChanged, toolVars, msgVars, uiRoot, uiTarget >>

\* _delete_session_task (app.py): the root session is saved unless the
\* root itself is being deleted
DeleteTaskSave ==
    /\ uiPc = "save"
    /\ IF uiRoot # << >> /\ uiTarget[1] # uiRoot[1]
       THEN /\ store' = save_session(uiRoot[1])
            /\ mtimeChanged' = TRUE
       ELSE UNCHANGED << store, mtimeChanged >>
    /\ uiPc' = "finally"
    /\ UNCHANGED << otherVars, envVars, toolVars, msgVars, uiRoot, uiTarget >>

\* _delete_session_task (app.py), finally: the session leaves the UI state
DeleteTaskFinally ==
    /\ uiPc = "finally"
    /\ uiRoot' = IF uiRoot # << >>
                    /\ SessionId(uiTarget[1].session_name)
                         = SessionId(uiRoot[1].session_name)
                 THEN << >>
                 ELSE remove_child(uiRoot, SessionId(uiTarget[1].session_name))
    /\ uiPc' = "done"
    /\ UNCHANGED << otherVars, store, mtimeChanged, envVars, toolVars, msgVars, uiTarget >>

\* action_delete_session (kerberos.py): any session of the tree is selected
RunnerActionDeleteSession ==
    /\ uiPc \in { "idle", "done" }
    /\ \E s \in Nodes(uiRoot) : uiTarget' = << s >>
    /\ uiPc' = "runner_delete"
    /\ UNCHANGED << otherVars, store, mtimeChanged, envVars, toolVars, msgVars, uiRoot >>

\* _delete_session_task (kerberos.py): await to_thread(session_to_delete.delete)
RunnerDeleteTaskDelete ==
    /\ uiPc = "runner_delete"
    /\ SessionDelete(uiTarget[1])
    /\ uiPc' = "runner_save"
    /\ UNCHANGED << otherVars, store, mtimeChanged, toolVars, msgVars, uiRoot, uiTarget >>

\* _delete_session_task (kerberos.py): the session is removed from the
\* tree, and the first root is saved if any root remains
RunnerDeleteTaskSave ==
    /\ uiPc = "runner_save"
    /\ uiRoot' = _remove_session_from_tree(uiRoot, SessionId(uiTarget[1].session_name))
    /\ IF uiRoot' # << >>
       THEN /\ store' = save_session(uiRoot'[1])
            /\ mtimeChanged' = TRUE
       ELSE UNCHANGED << store, mtimeChanged >>
    /\ uiPc' = "done"
    /\ UNCHANGED << otherVars, envVars, toolVars, msgVars, uiTarget >>

(***************************************************************************)
(* Specification of the UI next to the tool service                        *)
(***************************************************************************)
NextUi ==
    \/ spawn_subagent(1, MaxUiNodes)
    \/ WatchSessionsFile
    \/ ActionDeleteSession
    \/ DeleteTaskDelete
    \/ DeleteTaskSave
    \/ DeleteTaskFinally
    \/ RunnerActionDeleteSession
    \/ RunnerDeleteTaskDelete
    \/ RunnerDeleteTaskSave

SpecUi == Init /\ [][NextUi]_vars

(***************************************************************************)
(* Terminal delivery (cerb_code/lib/tmux_agent.py)                         *)
(***************************************************************************)
\* exit codes a tmux command on the session's pane can have: it fails when
\* the terminal session does not exist, and may fail otherwise
ExitCodes(id) == IF id \in terminals THEN { 0, 1 } ELSE { 1 }

Literal(text) == [ key |-> "literal", text |-> text ]
Enter == [ key |-> "C-m", text |-> << >> ]

\* the pane after send-keys -l message (r1) and send-keys C-m (r2)
PaneAfter(pane, message, r1, r2) ==
    pane \o (IF r1 = 0 THEN << Literal(message) >> ELSE << >>)
         \o (IF r2 = 0 THEN << Enter >> ELSE << >>)

\* send_message that returns the status of its last command
SendMessageReturnsLast(r1, r2) == r2 = 0

\* the value TmuxProtocol.send_message returns
SendMessageReturns(r1, r2) == r1 = 0 /\ r2 = 0

Delivered(r1, r2) == IF SendMessageReturns(r1, r2) THEN "ok" ELSE "failed"

(***************************************************************************)
(* The control plane's start and delete (cerb_code/lib/tmux_agent.py) and  *)
(* the docker helpers (orchestra/lib/helpers/docker.py)                    *)
(***************************************************************************)
CtlSessions == { << "a" >>, << "b" >> }

\* f"orchestra-{session_id}"
get_docker_container_name(session_id) == << "orchestra-" >> \o session_id

\* the containers docker holds under a name
ContainersOf(cs, name) == { c \in cs : c.name = name }

\* which of the commands and file operations of a call succeed
CommandOutcomes ==
    [ image : BOOLEAN,     \* ensure_docker_image
      rm : BOOLEAN,        \* docker rm
      config : BOOLEAN,    \* ensure_shared_claude_config
      run : BOOLEAN,       \* docker run
      stop : BOOLEAN,      \* docker stop
      tmux : BOOLEAN ]     \* tmux new-session / kill-session

ContainerResult(raised, cs, n) == [ raised |-> raised, containers |-> cs, created |-> n ]

\* start_docker_container that reuses the container inspect finds, running
\* or not
StartContainerReusesAny(cs, n, name, f) ==
    IF ~ f.image THEN ContainerResult(TRUE, cs, n)
    ELSE LET found == ContainersOf(cs, name) IN
         IF found # { } THEN ContainerResult(FALSE, cs, n)
         ELSE IF ~ f.config THEN ContainerResult(TRUE, cs, n)
         ELSE IF ~ f.run THEN ContainerResult(TRUE, cs, n)
         ELSE ContainerResult(FALSE,
                              cs \cup { [ name |-> name, id |-> n + 1, state |-> "running" ] },
                              n + 1)

\* start_docker_container, lines 71-174: it returns True or raises
\* RuntimeError.  ensure_docker_image raises when the image cannot be built
\* (line 67); a running container of that name is reused (96-100); a stopped
\* one is removed, the result of docker rm being ignored (102); the shared
\* configuration is read and written outside any try (113); docker run fails
\* when docker refuses or the name is still taken, and that raises (170).
start_docker_container(cs, n, name, f) ==
    IF ~ f.image THEN ContainerResult(TRUE, cs, n)
    ELSE LET found == ContainersOf(cs, name) IN
         IF found # { } /\ \A c \in found : c.state = "running"
         THEN ContainerResult(FALSE, cs, n)
         ELSE LET left == IF f.rm THEN cs \ found ELSE cs IN
              IF ~ f.config THEN ContainerResult(TRUE, left, n)
              ELSE IF ~ f.run \/ ContainersOf(left, name) # { }
              THEN ContainerResult(TRUE, left, n)
              ELSE ContainerResult(FALSE,
                                   left \cup { [ name |-> name, id |-> n + 1,
                                                 state |-> "running" ] },
                                   n + 1)

\* what a call is recorded as
CallRecord(op, name, d, outcome) ==
    [ seq |-> ctl.seq + 1, op |-> op, session |-> name,
      had_terminal |-> name \in terminals,
      was |-> ContainersOf(containers, get_docker_container_name(name)),
      docker |-> d, outcome |-> outcome, prepared |-> name \in prepared ]

\* a work_path check that lets every session pass
HasWorkPathAssumed(name) == TRUE

\* `session.work_path` is set
HasWorkPath(name) == name \in prepared

\* TmuxProtocol.start, lines 330-395: False without a work_path; the
\* container is started, and its RuntimeError is not caught; tmux new-session
\* fails when a session of that name exists; after a new session the trust
\* prompt is answered with an empty message, whose result is dropped
TmuxStart(op, name, has_work_path) ==
    \E f \in CommandOutcomes, r1 \in { 0, 1 }, r2 \in { 0, 1 } :
          LET cname == get_docker_container_name(name)
              d == IF use_docker THEN start_docker_container(containers, created, cname, f)
                   ELSE ContainerResult(FALSE, containers, created)
              new_session == f.tmux /\ name \notin terminals
          IN
          IF ~ has_work_path
          THEN /\ ctl' = CallRecord(op, name, "", "false")
               /\ UNCHANGED << containers, created, terminals, panes >>
          ELSE /\ containers' = d.containers
               /\ created' = d.created
               /\ IF d.raised
                  THEN /\ ctl' = CallRecord(op, name, "raised", "raised")
                       /\ UNCHANGED << terminals, panes >>
                  ELSE /\ ctl' = CallRecord(op, name,
                                            IF use_docker THEN "true" ELSE "",
                                            IF new_session THEN "true" ELSE "false")
                       /\ terminals' = IF new_session THEN terminals \cup { name }
                                       ELSE terminals
                       /\ panes' = IF new_session
                                   THEN [ panes EXCEPT ![name] = PaneAfter(@, << >>, r1, r2) ]
                                   ELSE panes

\* the control plane's start called with a session object
Start(name) ==
    /\ ctl.seq < MaxCtlCalls
    /\ TmuxStart("start", name, HasWorkPath(name))
    /\ UNCHANGED << othersOfCtl, store, mtimeChanged, worktrees, files, toolVars, uiVars,
                    queueVars, sent, use_docker, prepared >>

\* get_status, lines 397-470: in docker mode the container must be running;
\* the terminal session must be there
StatusExists(name) ==
    /\ use_docker => \E c \in ContainersOf(containers, get_docker_container_name(name)) :
                        c.state = "running"
    /\ name \in terminals

\* app.py 541-576, _attach_to_session: a session whose terminal session is
\* there is attached; else it is prepared when work_path is unset, which
\* can raise, and started: Session.start sees to it that the session is
\* prepared and calls the control plane's start
AttachToSession(name) ==
    /\ ctl.seq < MaxCtlCalls
    /\ IF StatusExists(name)
       THEN /\ ctl' = CallRecord("attach", name, "", "attached")
            /\ UNCHANGED << containers, created, terminals, panes, prepared >>
       ELSE \E prepares \in BOOLEAN :
               IF ~ HasWorkPath(name) /\ ~ prepares
               THEN /\ ctl' = CallRecord("attach", name, "", "raised")
                    /\ UNCHANGED << containers, created, terminals, panes, prepared >>
               ELSE /\ prepared' = prepared \cup { name }
                    /\ TmuxStart("attach", name, TRUE)
    /\ UNCHANGED << othersOfCtl, store, mtimeChanged, worktrees, files, toolVars, uiVars,
                    queueVars, sent, use_docker >>

\* stop_docker_container, lines 177-181: docker stop, then docker rm, which
\* removes a container that is not running; neither result is looked at
stop_docker_container(cs, name, f) ==
    LET found == ContainersOf(cs, name)
        stopped == IF f.stop THEN { [ c EXCEPT !.state = "stopped" ] : c \in found }
                   ELSE found
        removed == IF f.rm THEN { c \in stopped : c.state = "running" } ELSE stopped
    IN  (cs \ found) \cup removed

\* TmuxProtocol.delete, lines 558-581: the container is stopped and removed,
\* and the terminal session in it ends with it; or the local terminal
\* session is killed.  It returns True.
Delete(name) ==
    /\ ctl.seq < MaxCtlCalls
    /\ \E f \in CommandOutcomes :
          LET cname == get_docker_container_name(name)
              cs == IF use_docker THEN stop_docker_container(containers, cname, f)
                    ELSE containers
              alive == IF use_docker
                       THEN \E c \in ContainersOf(cs, cname) : c.state = "running"
                       ELSE ~ f.tmux
          IN  /\ containers' = cs
              /\ terminals' = IF alive THEN terminals ELSE terminals \ { name }
              /\ ctl' = CallRecord("delete", name, "", "true")
    /\ UNCHANGED << othersOfCtl, store, mtimeChanged, worktrees, files, toolVars, uiVars,
                    msgVars, use_docker, created, prepared >>

(***************************************************************************)
(* The hook forwarder (cerb_code/runners/hook_monitor.py): one process per *)
(* hook event of an agent                                                  *)
(***************************************************************************)
K_cwd == << "c", "w", "d" >>
K_git_branch == << "g", "i", "t", "_", "b", "r", "a", "n", "c", "h" >>

\* what the hook writes to stdin: a payload with a cwd, one that also names
\* its branch, one without a cwd, a cut-off document and a JSON number
ForwarderPayloads ==
    { json_dumps(<< << K_cwd, SourcePath >> >>),
      json_dumps(<< << K_cwd, SourcePath >>, << K_git_branch, << "x" >> >> >>),
      json_dumps(<< << K_git_branch, << "x" >> >> >>),
      << "{" >>,
      << "1" >> }

\* json.loads of each payload
ForwarderDecoded == [ body \in ForwarderPayloads |-> json_loads(body) ]

\* CLAUDE_BRANCH in the environment, or None
EnvOverrides == { None, << "e" >> }

\* what _run_git returns for `git rev-parse --abbrev-ref HEAD` in the cwd: a
\* branch, or None when git fails or prints nothing (lines 15-20)
GitBranches == { << "m" >>, << "f", "/", "x" >>, None }

\* how the POST ends: a status of the service, a refused connection, or the
\* timeout of 2 seconds
PostOutcomes == { "200", "400", "404", "503", "refused", "timeout" }

\* urllib.parse.quote(s, safe=""): "/" is percent-encoded, letters are kept
RECURSIVE QuoteFrom(_, _)
QuoteFrom(str, i) ==
    IF i > Len(str) THEN << >>
    ELSE (IF str[i] = "/" THEN << "%", "2", "F" >> ELSE << str[i] >>) \o QuoteFrom(str, i + 1)

quote(str) == QuoteFrom(str, 1)

\* _detect_branch, lines 23-40: payload["cwd"] raises on a payload that is
\* not a dict (TypeError) or has no cwd (KeyError); the answer of _run_git is
\* returned as it is, None included
_detect_branch(data, git) ==
    IF ~ data.dict THEN [ raised |-> TRUE, branch |-> None ]
    ELSE IF DictGet(data.value, K_cwd) = None THEN [ raised |-> TRUE, branch |-> None ]
    ELSE [ raised |-> FALSE, branch |-> git ]

\* the exit code that gives up when the POST raised
ExitAfterPostFails(outcome) == IF outcome \in { "refused", "timeout" } THEN 1 ELSE 0

\* lines 69-75: requests.post returned a response, whose status is not
\* looked at, or raised, which is caught and printed; main returns 0
ExitAfterPost(outcome) == 0

\* the hook runs the forwarder: its stdin, its environment, and what git
\* would answer in the payload's cwd
ForwarderStart ==
    /\ fwd.pc \in { "idle", "done" }
    /\ fwd.runs < MaxForwarderRuns
    /\ \E body \in ForwarderPayloads, env \in EnvOverrides, git \in GitBranches :
          fwd' = [ pc |-> "main", runs |-> fwd.runs + 1, stdin |-> body, env |-> env,
                   git |-> git, session_id |-> None, url |-> << >>, post |-> "", exit |-> 0 ]
    /\ UNCHANGED << othersOfRun, panes, sup, repo, watch >>

\* main, lines 44-66: stdin that does not decode returns 1; an exception of
\* _detect_branch, or of quote(None), leaves main: the interpreter prints
\* the traceback and exits with 1; else the url is made
ForwarderMain ==
    /\ fwd.pc = "main"
    /\ LET data == ForwarderDecoded[fwd.stdin]
           d == _detect_branch(data, fwd.git)
       IN  IF ~ data.ok \/ d.raised \/ d.branch = None
           THEN fwd' = [ fwd EXCEPT !.pc = "done", !.exit = 1 ]
           ELSE fwd' = [ fwd EXCEPT !.pc = "post", !.session_id = d.branch,
                                    !.url = << "/hook/" >> \o quote(d.branch) ]
    /\ UNCHANGED << othersOfRun, panes, sup, repo, watch >>

\* lines 68-75: the POST and the return
ForwarderPost ==
    /\ fwd.pc = "post"
    /\ \E outcome \in PostOutcomes :
          fwd' = [ fwd EXCEPT !.pc = "done", !.post = outcome, !.exit = ExitAfterPost(outcome) ]
    /\ UNCHANGED << othersOfRun, panes, sup, repo, watch >>

(***************************************************************************)
(* The supervisor's shutdown (orchestra/runners/maestro.py,                *)
(* cleanup_servers)                                                        *)
(***************************************************************************)
\* session_id of every session of the store, in pre-order
SessionIdsInOrder(list) ==
    [ i \in 1..Len(Flatten(list)) |-> SessionId(Flatten(list)[i].session_name) ]

\* load_sessions(flat=True): every session of the store; an unreadable
\* store is read as empty
load_sessions_flat(readable) == IF readable THEN SessionIdsInOrder(store) ELSE << >>

\* cleanup_pairing_artifacts(source_path, session_id): when source_path is
\* the symlink to that session's worktree and the backup exists, the
\* symlink is removed and the backup renamed back; each step can fail
cleanup_pairing_artifacts(files_, name, f) ==
    IF files_.source # LinkTo(name) \/ ~ Exists(files_.backup)
    THEN [ raised |-> FALSE, fs |-> files_ ]
    ELSE IF ~ f.unlink THEN [ raised |-> TRUE, fs |-> files_ ]
    ELSE IF ~ f.restore THEN [ raised |-> TRUE, fs |-> [ files_ EXCEPT !.source = Absent ] ]
    ELSE [ raised |-> FALSE, fs |-> [ source |-> files_.backup, backup |-> Absent ] ]

\* a cleanup whose exception leaves cleanup_servers
AfterCleanupAborts(raised) == IF raised THEN "raised" ELSE "pairing"

\* lines 73-76: an exception of cleanup_pairing_artifacts is caught and
\* logged, and the loop goes on
AfterCleanup(raised) == "pairing"

Logged(step, name, ok) == Append(sup.log, [ step |-> step, session |-> name, ok |-> ok ])

\* lines 68-69: the sessions are loaded
CleanupLoad ==
    /\ sup.pc = "running"
    /\ \E readable \in BOOLEAN :
          sup' = [ sup EXCEPT !.pc = "pairing",
                              !.sessions = load_sessions_flat(readable),
                              !.log = Logged("load", NoName, readable) ]
    /\ UNCHANGED << othersOfRun, panes, fwd, repo, watch >>

\* lines 70-76: the pairing artifacts of the next session are reversed
CleanupSession ==
    /\ sup.pc = "pairing"
    /\ sup.sessions # << >>
    /\ \E f \in StepOutcomes :
          LET name == Head(sup.sessions)
              r == cleanup_pairing_artifacts(fs, name, f)
          IN  /\ fs' = r.fs
              /\ sup' = [ sup EXCEPT !.pc = AfterCleanup(r.raised),
                                     !.sessions = Tail(@),
                                     !.log = Logged("cleanup", name, ~ r.raised) ]
    /\ UNCHANGED << store, mtimeChanged, envVars, toolVars, uiVars, msgVars, lockVars,
                    gitFile, paired, paired_session_id, toggles, monVars, downVars, timeVars,
                    ctlVars, fwd, repo, watch >>

\* lines 78-79: kill_process_gracefully(mcp_proc): terminated, or killed
\* once the wait timed out
CleanupKillMcp ==
    /\ sup.pc = "pairing"
    /\ sup.sessions = << >>
    /\ \E graceful \in BOOLEAN :
          sup' = [ sup EXCEPT !.pc = "monitor", !.mcp_proc = FALSE,
                              !.log = Logged("mcp", NoName, graceful) ]
    /\ UNCHANGED << othersOfRun, panes, fwd, repo, watch >>

\* lines 81-83: kill_process_gracefully(monitor_proc)
CleanupKillMonitor ==
    /\ sup.pc = "monitor"
    /\ \E graceful \in BOOLEAN :
          sup' = [ sup EXCEPT !.pc = "server", !.monitor_proc = FALSE,
                              !.log = Logged("monitor", NoName, graceful) ]
    /\ UNCHANGED << othersOfRun, panes, fwd, repo, watch >>

\* lines 85-90: tmux kill-server ends the server and every terminal session
\* on it; a failure of the command is logged
CleanupKillServer ==
    /\ sup.pc = "server"
    /\ \E ok \in BOOLEAN :
          /\ sup' = [ sup EXCEPT !.pc = "done", !.server = ~ ok,
                                 !.log = Logged("server", NoName, ok) ]
          /\ terminals' = IF ok THEN { } ELSE terminals
    /\ UNCHANGED << store, mtimeChanged, worktrees, files, toolVars, uiVars, msgVars, lockVars,
                    pairVars, monVars, downVars, timeVars, ctlVars, fwd, repo, watch >>

(***************************************************************************)
(* Stable git relocation (cerb_code/lib/helpers.py,                        *)
(* ensure_stable_git_location)                                             *)
(***************************************************************************)
\* which file operations of a call succeed
RelocationOutcomes == [ move : BOOLEAN, mkdir : BOOLEAN, symlink : BOOLEAN ]

\* the three paths of a repository state
PathsOf(r) == [ git |-> r.git, backup |-> r.backup, stable |-> r.stable ]

Relocated(paths, outcome) == [ paths |-> paths, outcome |-> outcome ]

\* shutil.move(src, dst): a rename; into dst when dst is a directory
MovedTo(entry, dst) ==
    IF dst.kind = "dir" THEN [ dst EXCEPT !.content = dst.content \o "+" \o entry.content ]
    ELSE entry

\* ensure_stable_git_location, lines 30-69.  A symlink, and a .git that is
\* missing or not a directory, return at once (40-47).  With the stable
\* location there, .git is moved to .git.backup and the symlink made
\* (53-60); else .git is moved to the stable location and the symlink made
\* (63-68).  No file operation is inside a try.
ensure_stable_git_location(r, f) ==
    LET here == PathsOf(r) IN
    IF r.git.kind = "link" THEN Relocated(here, "returned")
    ELSE IF r.git.kind # "dir" THEN Relocated(here, "returned")
    ELSE IF r.stable.kind # "absent"
    THEN IF ~ f.move THEN Relocated(here, "raised")
         ELSE LET moved == [ here EXCEPT !.git = NoEntry, !.backup = MovedTo(r.git, r.backup) ]
              IN  IF ~ f.symlink THEN Relocated(moved, "raised")
                  ELSE Relocated([ moved EXCEPT !.git = StableLink ], "returned")
    ELSE IF ~ f.mkdir \/ ~ f.move THEN Relocated(here, "raised")
    ELSE LET moved == [ here EXCEPT !.git = NoEntry, !.stable = r.git ]
         IN  IF ~ f.symlink THEN Relocated(moved, "raised")
             ELSE Relocated([ moved EXCEPT !.git = StableLink ], "returned")

\* a call for the project
EnsureStableGitLocation ==
    /\ repo.calls < MaxRelocations
    /\ \E f \in RelocationOutcomes :
          LET r == ensure_stable_git_location(repo, f) IN
          repo' = [ git |-> r.paths.git, backup |-> r.paths.backup, stable |-> r.paths.stable,
                    calls |-> repo.calls + 1,
                    last |-> [ before |-> << PathsOf(repo) >>, outcome |-> r.outcome ] ]
    /\ UNCHANGED << othersOfRun, panes, fwd, sup, watch >>

(***************************************************************************)
(* The file watcher (cerb_code/lib/file_watcher.py)                        *)
(***************************************************************************)
\* Path.name of a path
NameOf(path) == IF path.file # "" THEN << path.file >> ELSE path.dir

\* the text of the notification
DesignerUpdated == << "designer.md has been updated. Please review the changes." >>

\* on_dir_change, lines 168-191: whether the handler sends the notification
on_dir_change(path, change_type) ==
    NameOf(path) = << "designer.md" >> /\ change_type # "deleted"

\* line 125-126: `if path in self._watchers`: the handlers registered under
\* the changed path itself
HandlersOf(watchers, path) == watchers[path]

\* watch_designer_file, lines 147-195, with FileWatcher.register, lines
\* 31-48: the handler is registered under the parent directory of
\* designer.md, and the stop event is set to restart awatch
WatchDesignerFile ==
    /\ \E sid \in WatchSessions :
          /\ watch._watchers[WorkDir(sid)] = { }
          /\ watch' = [ watch EXCEPT !._watchers[WorkDir(sid)] = { sid },
                                     !._stop_event = TRUE ]
    /\ UNCHANGED << othersOfRun, panes, fwd, sup, repo >>

\* FileWatcher.start, lines 74-82
WatcherStart ==
    /\ watch._task = "none"
    /\ watch' = [ watch EXCEPT !._task = "top", !._stop_event = FALSE ]
    /\ UNCHANGED << othersOfRun, panes, fwd, sup, repo >>

\* FileWatcher.stop, lines 84-102: the task is told to stop
WatcherStop ==
    /\ watch._task \in { "top", "watching" }
    /\ ~ watch._should_stop
    /\ watch' = [ watch EXCEPT !._should_stop = TRUE, !._stop_event = TRUE ]
    /\ UNCHANGED << othersOfRun, panes, fwd, sup, repo >>

\* _run, lines 106-120: the loop's test, the sleep without watchers, and the
\* start of awatch on the registered paths
RunTop ==
    /\ watch._task = "top"
    /\ watch' =
          IF watch._should_stop THEN [ watch EXCEPT !._task = "done" ]
          ELSE IF \A path \in WatchPaths : watch._watchers[path] = { } THEN watch
          ELSE [ watch EXCEPT !._task = "watching", !._stop_event = FALSE,
                              !.pending = { },
                              !.watch_paths = { path \in WatchPaths :
                                                  watch._watchers[path] # { } } ]
    /\ UNCHANGED << othersOfRun, panes, fwd, sup, repo >>

\* something changes in a work directory: a file is added, modified or
\* deleted.  awatch, watching the directory, reports the change with the
\* path of the file.  A change of designer.md other than a deletion, made
\* while the watch is registered and awatch watches the directory, is
\* numbered.
Change ==
    /\ watch.changes < MaxChanges
    /\ \E sid \in WatchSessions, filename \in { "designer.md", "notes" },
          change_type \in { "added", "modified", "deleted" } :
          LET path == InDir(sid, filename)
              seen == watch._task = "watching" /\ WorkDir(sid) \in watch.watch_paths
              counted == /\ on_dir_change(path, change_type)
                         /\ watch._watchers[WorkDir(sid)] # { }
                         /\ seen
                         /\ ~ watch._stop_event
              n == IF counted THEN watch.modified[sid] + 1 ELSE 0
          IN  watch' = [ watch EXCEPT
                           !.changes = @ + 1,
                           !.modified[sid] = IF counted THEN n ELSE @,
                           !.pending = IF seen
                                       THEN @ \cup { [ path |-> path, type |-> change_type,
                                                       n |-> n ] }
                                       ELSE @ ]
    /\ UNCHANGED << othersOfRun, panes, fwd, sup, repo >>

\* lines 120-133: awatch yields a change; the handlers found for its path
\* are called; a handler that notifies sends the message to its session
AwatchYield ==
    /\ watch._task = "watching"
    /\ \E c \in watch.pending :
          LET handlers == HandlersOf(watch._watchers, c.path)
              notify == { sid \in handlers : on_dir_change(c.path, c.type) }
          IN  /\ watch' = [ watch EXCEPT
                              !.pending = @ \ { c },
                              !.notified = [ sid \in WatchSessions |->
                                               IF sid \in notify /\ c.n > @[sid]
                                               THEN c.n ELSE @[sid] ] ]
              /\ \E r1 \in { 0, 1 }, r2 \in { 0, 1 } :
                    panes' = [ sid \in Names |->
                                 IF sid \in notify
                                 THEN PaneAfter(panes[sid], DesignerUpdated, r1, r2)
                                 ELSE panes[sid] ]
    /\ UNCHANGED << othersOfRun, fwd, sup, repo >>

\* lines 120 and 139-144: the stop event ends awatch; the loop goes round
AwatchStopped ==
    /\ watch._task = "watching"
    /\ watch._stop_event
    /\ watch' = [ watch EXCEPT !._task = "top", !.pending = { } ]
    /\ UNCHANGED << othersOfRun, panes, fwd, sup, repo >>

(***************************************************************************)
(* send_message_to_session (cerb_code/runners/mcp_server.py)               *)
(***************************************************************************)
\* target.send_message(message); return "Successfully sent ..."
SendResult(name, r1, r2) == Sent(name)

send_message_to_session ==
    /\ sent.seq < MaxSends
    /\ \E name \in Names, m \in Texts :
          LET path == find_session(load_sessions, name) IN
          IF path = NoPath
          THEN /\ sent' = [ seq |-> sent.seq + 1, tool |-> "cerb", session_name |-> name,
                            sender |-> NoName, message |-> m, codes |-> << >>,
                            delivered |-> "", result |-> SessionNotFound(name) ]
               /\ panes' = panes
          ELSE \E r1 \in ExitCodes(SessionId(name)), r2 \in ExitCodes(SessionId(name)) :
               /\ panes' = [ panes EXCEPT ![SessionId(name)] = PaneAfter(@, m, r1, r2) ]
               /\ sent' = [ seq |-> sent.seq + 1, tool |-> "cerb", session_name |-> name,
                            sender |-> NoName, message |-> m,
                            codes |-> << r1, r2 >>,
                            delivered |-> Delivered(r1, r2),
                            result |-> SendResult(name, r1, r2) ]
    /\ UNCHANGED << otherVars, store, mtimeChanged, envVars, toolVars, uiVars, queueVars >>

(***************************************************************************)
(* send_message_to_session (orchestra/backend/mcp_server.py)               *)
(***************************************************************************)
Senders == { << "a" >>, << "m" >> }

\* "[From: {sender_name}] "
Prefix(sender) == << "[", "F", "r", "o", "m", ":", " " >> \o sender \o << "]", " " >>

\* QueuedText that puts the provenance prefix into the queued text
QueuedTextPrefixed(sender, m) == Prefix(sender) \o m

\* what the designer's queue entry carries in its message field
QueuedText(sender, m) == m

\* what is typed into an executor's terminal
TypedText(sender, m) == Prefix(sender) \o m

BackendResult(name, r1, r2) ==
    IF SendMessageReturns(r1, r2) THEN Sent(name) ELSE SendFailed(name)

backend_send_message_to_session ==
    /\ sent.seq < MaxSends
    /\ Len(appended) < MaxMessages
    /\ \E name \in Names, m \in Texts, snd \in Senders :
          LET path == find_session(load_sessions, name)
              call == [ seq |-> sent.seq + 1, tool |-> "backend", session_name |-> name,
                        sender |-> snd, message |-> m ]
          IN
          IF path = NoPath
          THEN /\ sent' = call @@ [ codes |-> << >>, delivered |-> "",
                                    result |-> SessionNotFound(name) ]
               /\ UNCHANGED << panes, queueVars >>
          ELSE IF NodeAt(load_sessions, path).agent_type = "designer"
          THEN /\ append_message(name, snd, QueuedText(snd, m), SourcePath)
               /\ sent' = call @@ [ codes |-> << >>, delivered |-> "",
                                    result |-> Queued(name, Uuid(Len(appended) + 1)) ]
               /\ UNCHANGED << panes, lastRead >>
          ELSE \E r1 \in ExitCodes(SessionId(name)), r2 \in ExitCodes(SessionId(name)) :
               /\ panes' = [ panes EXCEPT
                               ![SessionId(name)] = PaneAfter(@, TypedText(snd, m), r1, r2) ]
               /\ sent' = call @@ [ codes |-> << r1, r2 >>,
                                    delivered |-> Delivered(r1, r2),
                                    result |-> BackendResult(name, r1, r2) ]
               /\ UNCHANGED queueVars
    /\ UNCHANGED << otherVars, store, mtimeChanged, envVars, toolVars, uiVars >>

(***************************************************************************)
(* Specification of message delivery: a designer with one running executor *)
(***************************************************************************)
InitMsg ==
    /\ store = AppendChild(<< Root >>, << 1 >>, Session(<< "a" >>, "executor", Designer))
    /\ worktrees = { << "d" >>, << "a" >> }
    /\ files = worktrees
    /\ terminals = worktrees
    /\ pc = [ c \in Calls |-> "idle" ]
    /\ args = [ c \in Calls |-> NoArgs ]
    /\ sessions = [ c \in Calls |-> << >> ]
    /\ parent = [ c \in Calls |-> NoPath ]
    /\ result = [ c \in Calls |-> NoResult ]
    /\ mtimeChanged = FALSE
    /\ uiRoot = store
    /\ uiPc = "idle"
    /\ uiTarget = << >>
    /\ messages_file = [ exists |-> FALSE, text |-> << >> ]
    /\ appended = << >>
    /\ lastRead = [ target |-> NoName, messages |-> << >>, raised |-> FALSE ]
    /\ panes = [ n \in Names |-> << >> ]
    /\ sent = NoSend
    /\ InitOther

NextMsg == send_message_to_session \/ backend_send_message_to_session

SpecMsg == InitMsg /\ [][NextMsg]_vars

(***************************************************************************)
(* Specification of the message queue                                      *)
(***************************************************************************)
NextQueue == AppendMessage \/ ReadPendingMessages

SpecQueue == Init /\ [][NextQueue]_vars

(***************************************************************************)
(* Specification of the message queue shared by several processes          *)
(***************************************************************************)
NextQueueConc ==
    \E p \in QProcs :
        \/ AppendOpen(p)
        \/ LockEx(p)
        \/ AppendWrite(p)
        \/ UnlockEx(p)
        \/ ReadOpen(p)
        \/ LockSh(p)
        \/ ReadScan(p)
        \/ UnlockSh(p)

SpecQueueConc == Init /\ [][NextQueueConc]_vars

(***************************************************************************)
(* Specification of the monitor service: hook requests of a designer's     *)
(* executor, and of a session the store does not hold                      *)
(***************************************************************************)
NextMon ==
    \/ \E r \in HookRequests : HookPost(r) \/ HookRoute(r) \/ HookStarted(r)
    \/ \E id \in 1..Len(monitors) :
          \/ RunStartup(id)
          \/ RunGetFirst(id)
          \/ RunCollect(id)
          \/ RunBatchClosed(id)
          \/ RunSend(id)

SpecMon == InitMsg /\ [][NextMon]_vars

\* the same service with its scheduling: the event loop runs every request
\* handler and every consumer task that can take a step
ConsumerTask(id) ==
    /\ id \in 1..Len(monitors)
    /\ \/ RunStartup(id)
       \/ RunGetFirst(id)
       \/ RunCollect(id)
       \/ RunBatchClosed(id)
       \/ RunSend(id)

SpecMonFair ==
    /\ InitMsg
    /\ [][NextMon]_vars
    /\ \A r \in HookRequests : WF_vars(HookRoute(r) \/ HookStarted(r))
    /\ \A id \in 1..MaxHooks : WF_vars(ConsumerTask(id))

(***************************************************************************)
(* Specification of the monitor service and its shutdown: requests are     *)
(* served until the shutdown handler is called; the consumer tasks run on  *)
(***************************************************************************)
NextDown ==
    \/ /\ down.pc = "idle"
       /\ \E r \in HookRequests : HookPost(r) \/ HookRoute(r) \/ HookStarted(r)
    \/ \E id \in 1..Len(monitors) :
          \/ RunStartup(id)
          \/ RunGetFirst(id)
          \/ RunCollect(id)
          \/ RunBatchClosed(id)
          \/ RunSend(id)
    \/ ShutdownBegin
    \/ ShutdownStop
    \/ ShutdownReturn

SpecDown == InitMsg /\ [][NextDown]_vars

\* the consumer loops under a client that posts one hook at a time, until
\* the shutdown handler is called
NextConsumer ==
    \/ /\ down.pc = "idle"
       /\ \A q \in HookRequests : hreq[q].pc = "idle"
       /\ \E r \in HookRequests : HookPost(r)
    \/ \E r \in HookRequests : HookRoute(r) \/ HookStarted(r)
    \/ \E id \in 1..Len(monitors) :
          \/ RunStartup(id)
          \/ RunGetFirst(id)
          \/ RunCollect(id)
          \/ RunBatchClosed(id)
          \/ RunSend(id)
    \/ ShutdownBegin
    \/ ShutdownStop
    \/ ShutdownReturn

SpecConsumer == InitMsg /\ [][NextConsumer]_vars

(***************************************************************************)
(* Specification of the consumer loop in time: hook requests arrive at any *)
(* second                                                                  *)
(***************************************************************************)
NextBatch ==
    \/ \E r \in HookRequests : HookPost(r) \/ HookRoute(r) \/ HookStarted(r)
    \/ \E id \in 1..Len(monitors) :
          \/ RunStartup(id)
          \/ TimedGetFirst(id)
          \/ TimedCheck(id)
          \/ TimedWaitGot(id)
          \/ TimedWaitTimeout(id)
          \/ RunSend(id)
    \/ Tick

SpecBatch == InitMsg /\ [][NextBatch]_vars

(***************************************************************************)
(* Specification of the control plane: sessions are started and deleted,   *)
(* with containers or without                                              *)
(***************************************************************************)
InitControl ==
    /\ InitCore
    /\ store = << Root >>
    /\ InitLock
    /\ InitPair
    /\ InitMon
    /\ InitDown
    /\ time = 0
    /\ InitRun
    /\ \E docker \in BOOLEAN, ws \in SUBSET CtlSessions : InitCtlWith(docker, ws)

NextCtl == \E name \in CtlSessions : Start(name) \/ Delete(name) \/ AttachToSession(name)

SpecCtl == InitControl /\ [][NextCtl]_vars

(***************************************************************************)
(* Specification of the hook forwarder                                     *)
(***************************************************************************)
NextForwarder == ForwarderStart \/ ForwarderMain \/ ForwarderPost

SpecForwarder == Init /\ [][NextForwarder]_vars

(***************************************************************************)
(* Specification of the supervisor: sessions are paired and unpaired while *)
(* it runs, then cleanup_servers is called                                 *)
(***************************************************************************)
NextSupervisor ==
    \/ sup.pc = "running" /\ TogglePairing
    \/ CleanupLoad
    \/ CleanupSession
    \/ CleanupKillMcp
    \/ CleanupKillMonitor
    \/ CleanupKillServer

SpecSupervisor == InitMsg /\ [][NextSupervisor]_vars

(***************************************************************************)
(* Specification of stable git relocation: a project in any state of its   *)
(* .git, with or without a stable location of its basename                 *)
(***************************************************************************)
InitRelocation ==
    /\ InitCore
    /\ InitLock
    /\ InitPair
    /\ InitMon
    /\ InitDown
    /\ time = 0
    /\ InitCtlWith(TRUE, { })
    /\ InitForwarder
    /\ InitSupervisor
    /\ InitWatch
    /\ \E git \in { NoEntry, GitDir("project"), GitFile, StableLink },
          backup \in { NoEntry, GitDir("saved") },
          stable \in { NoEntry, GitDir("project"), GitDir("other") } :
          InitRepoWith(git, backup, stable)

NextRelocation == EnsureStableGitLocation

SpecRelocation == InitRelocation /\ [][NextRelocation]_vars

(***************************************************************************)
(* Specification of the file watcher: watches are registered, the watcher  *)
(* is started and stopped, files change; the watcher's task is scheduled   *)
(* by the event loop whenever it can run                                   *)
(***************************************************************************)
WatcherTask == RunTop \/ AwatchYield \/ AwatchStopped

NextWatch ==
    \/ WatchDesignerFile
    \/ WatcherStart
    \/ WatcherStop
    \/ Change
    \/ WatcherTask

SpecWatch == InitMsg /\ [][NextWatch]_vars /\ WF_vars(WatcherTask)

(***************************************************************************)
(* Specification of pairing                                                *)
(***************************************************************************)
NextPair == TogglePairing \/ TogglePairingTask

InitPairing ==
    /\ InitCore
    /\ store = << Root >>
    /\ InitLock
    /\ InitMon
    /\ InitRest
    /\ \E git \in { "dir", "symlink" }, backup \in { Absent, Dir("dir") } :
          InitPairWith(git, backup)

SpecPair == InitPairing /\ [][NextPair]_vars

(***************************************************************************)
(* Specification of reading a queue file with arbitrary lines              *)
(***************************************************************************)
\* a line written by append_message for the designer
EntryLine == json_dumps(MessageObj(1, Designer, << "a" >>, << "h", "i" >>, SourcePath))

\* lines a queue file may hold: an entry, a truncated entry, a blank line,
\* and JSON documents that are not objects
FileLines ==
    { EntryLine,
      SubSeq(EntryLine, 1, 5),
      << " " >>,
      << "1" >>,
      << Quote, "s", Quote >> }

RECURSIVE JoinLines(_)
JoinLines(lines) ==
    IF lines = << >> THEN << >>
    ELSE Head(lines) \o << Newline >> \o JoinLines(Tail(lines))

QueueFiles ==
    { [ exists |-> FALSE, text |-> << >> ] }
    \cup { [ exists |-> TRUE, text |-> JoinLines(ls) ] :
             ls \in UNION { [ 1..n -> FileLines ] : n \in 0..MaxFileLines } }

InitFile ==
    /\ store = << Root >>
    /\ worktrees = { Designer }
    /\ files = worktrees
    /\ terminals = worktrees
    /\ pc = [ c \in Calls |-> "idle" ]
    /\ args = [ c \in Calls |-> NoArgs ]
    /\ sessions = [ c \in Calls |-> << >> ]
    /\ parent = [ c \in Calls |-> NoPath ]
    /\ result = [ c \in Calls |-> NoResult ]
    /\ mtimeChanged = FALSE
    /\ uiRoot = store
    /\ uiPc = "idle"
    /\ uiTarget = << >>
    /\ messages_file \in QueueFiles
    /\ appended = << >>
    /\ lastRead = [ target |-> NoName, messages |-> << >>, raised |-> FALSE ]
    /\ panes = [ n \in Names |-> << >> ]
    /\ sent = NoSend
    /\ InitOther

NextFile == ReadPendingMessages

SpecFile == InitFile /\ [][NextFile]_vars

(***************************************************************************)
(* Properties of spawn_subagent                                            *)
(***************************************************************************)
\* some session named parentName has a child named childName
HasChildUnder(list, parentName, childName) ==
    \E n \in Nodes(list) :
        /\ n.session_name = parentName
        /\ \E ch \in Children(n) : ch.session_name = childName

MissingParent(c) == find_session(sessions[c], args[c].parent) = NoPath

\* C1: a spawn_subagent call whose parent name find_session does not find
\* returns "Error: Parent session '<name>' not found", creates no child
\* session (no workspace, no files, no terminal, no child object) and
\* leaves the persisted store unchanged.
C1_MissingParentReturnsError ==
    [][ \A c \in Calls :
          (pc[c] = "find" /\ MissingParent(c) /\ pc'[c] # pc[c])
          => /\ pc'[c] = "done"
             /\ result'[c] = ParentNotFound(args[c].parent)
             /\ store' = store
             /\ sessions'[c] = sessions[c]
             /\ << worktrees', files', terminals' >> = << worktrees, files, terminals >>
      ]_vars

C1_Witness ==
    \E c \in Calls :
        /\ pc[c] = "done"
        /\ result[c] = ParentNotFound(args[c].parent)
        /\ find_session(store, args[c].parent) = NoPath

\* C2: every persisted session with a non-null parent_session_name is among
\* the children of the session find_session returns for that name.
C2_ChildUnderFoundParent ==
    \A s \in Nodes(store) :
        s.parent_session_name # NoName
        => LET path == find_session(store, s.parent_session_name)
           IN  /\ path # NoPath
               /\ s \in Children(NodeAt(store, path))

\* C3: while spawn_child has not yet started the child, and after any of its
\* steps has failed, the parent's children (the whole loaded tree) are as
\* they were before the call; the child is in the tree only once its
\* terminal session has been started.
C3_SpawnChildAtomic ==
    /\ (pc[1] \in { "prepare", "write", "start" }) => sessions[1] = store
    /\ (pc[1] = "done" /\ result[1] = Raised) => sessions[1] = store
    /\ (pc[1] = "save")
         => /\ SessionId(args[1].child) \in terminals
            /\ sessions[1] = AppendChild(store, parent[1], NewChild(1))

\* a spawn that failed after the child's workspace files were written
C3_Witness ==
    /\ pc[1] = "done"
    /\ result[1] = Raised
    /\ SessionId(args[1].child) \in files
    /\ SessionId(args[1].child) \notin terminals

AllSpawned ==
    \A c \in Calls :
        pc[c] = "done" /\ result[c] = Spawned(args[c].child, args[c].parent)

\* C4 (as stated): once all concurrent calls have returned success, the
\* persisted tree contains every spawned child under its parent.
C4_EverySpawnedChildPersisted ==
    AllSpawned
    => \A c \in Calls : HasChildUnder(store, args[c].parent, args[c].child)

\* C4 (amended): once all concurrent calls have returned success, the
\* persisted tree is the tree of the call that saved last, and it contains
\* that call's child under its parent.
C4_LastWriterWins ==
    AllSpawned
    => \E c \in Calls :
          /\ store = sessions[c]
          /\ HasChildUnder(store, args[c].parent, args[c].child)

\* all calls returned success and a spawned child is missing from the store
C4_Witness ==
    /\ AllSpawned
    /\ \E c \in Calls : ~ HasChildUnder(store, args[c].parent, args[c].child)

\* C9: a tool call that has finished has handed back a string; no exception
\* has left the tool function.
C9_ToolsReturnStrings ==
    \A c \in Calls : pc[c] = "done" => IsString(result[c])

(***************************************************************************)
(* Properties of the UI's delete-session task                              *)
(***************************************************************************)
SessionIds(list) == { SessionId(n.session_name) : n \in Nodes(list) }

\* C5: once the UI's delete-session task has finished, the store on disk
\* equals the UI's in-memory tree and no longer contains the deleted
\* session.
C5_DeletePersisted ==
    uiPc = "done"
    => /\ store = uiRoot
       /\ SessionId(uiTarget[1].session_name) \notin SessionIds(store)

(***************************************************************************)
(* Properties of the message queue                                         *)
(***************************************************************************)
RECURSIVE WithTarget(_, _)
WithTarget(objs, t) ==
    IF objs = << >> THEN << >>
    ELSE (IF DictGet(Head(objs), K_target) = t THEN << Head(objs) >> ELSE << >>)
         \o WithTarget(Tail(objs), t)

\* C10: read_pending_messages(t) returns exactly the appended entries whose
\* target equals t, in the order in which they were appended.
C10_QueueRoundTrip ==
    /\ \A t \in QueueTargets : read_pending_messages(t) = WithTarget(appended, t)
    /\ lastRead.target # NoName
         => \E k \in 0..Len(appended) :
               lastRead.messages = WithTarget(SubSeq(appended, 1, k), lastRead.target)

\* a read that returned two entries of its target, skipping one in between
C10_Witness ==
    /\ Len(appended) = 3
    /\ DictGet(appended[2], K_target) # lastRead.target
    /\ lastRead.messages = << appended[1], appended[3] >>

(***************************************************************************)
(* Properties of send_message_to_session                                   *)
(***************************************************************************)
\* a step that is a call of the orchestra tool on a session that exists
BackendCall ==
    /\ sent'.seq # sent.seq
    /\ sent'.tool = "backend"
    /\ find_session(store, sent'.session_name) # NoPath

ToDesigner ==
    NodeAt(store, find_session(store, sent'.session_name)).agent_type = "designer"

\* the entry on the last line of the queue file after the step
StoredEntry ==
    LET objs == ScanLines(Lines(messages_file'.text), 1, sent'.session_name).messages
    IN  IF objs = << >> THEN << >> ELSE objs[Len(objs)]

\* the keys the target's pane received in the step
Typed ==
    SubSeq(panes'[SessionId(sent'.session_name)],
           Len(panes[SessionId(sent'.session_name)]) + 1,
           Len(panes'[SessionId(sent'.session_name)]))

C8_FailedDeliveryReturnsError ==
    (sent.codes # << >> /\ sent.codes # << 0, 0 >>)
    => /\ sent.delivered = "failed"
       /\ IsError(sent.result)

(***************************************************************************)
(* Properties of the queue file                                            *)
(***************************************************************************)
RECURSIVE FileOf(_)
\* the file that holds exactly the lines of these objects
FileOf(objs) ==
    IF objs = << >> THEN << >> ELSE LineOf(Head(objs)) \o FileOf(Tail(objs))

\* what the holder of the exclusive lock has written of its line so far
PendingLine ==
    IF flock.ex # NoHolder /\ qproc[flock.ex].pc = "a_locked"
    THEN LET line == LineOf(qproc[flock.ex].obj)
         IN  SubSeq(line, 1, Len(line) - Len(qproc[flock.ex].left))
    ELSE << >>

\* C11: the queue file is the lines of the appends that have written their
\* line, in order, followed only by what the holder of the exclusive lock has
\* written so far; no append is lost; what a reader reads is whole lines only.
C11_QueueFileWholeLines ==
    /\ messages_file.text = FileOf(appended) \o PendingLine
    /\ Len(appended) + Cardinality({ p \in QProcs : qproc[p].pc \in { "a_opened", "a_locked" } })
          = issued
    /\ \A p \in QProcs :
          qproc[p].pc = "r_read"
            => \E k \in 0..Len(appended) : qproc[p].text = FileOf(SubSeq(appended, 1, k))

\* a writer is half-way through its line while another process waits for the
\* lock, after an earlier append
C11_Witness ==
    \E p \in QProcs, q \in QProcs :
        /\ p # q
        /\ qproc[p].pc = "a_locked"
        /\ qproc[p].left # << >>
        /\ Len(qproc[p].left) < Len(LineOf(qproc[p].obj))
        /\ qproc[q].pc \in { "a_opened", "r_opened" }
        /\ appended # << >>

\* the entries among the lines from position i whose target is t
RECURSIVE EntriesOf(_, _, _)
EntriesOf(lines, i, t) ==
    IF i > Len(lines) THEN << >>
    ELSE LET parsed == json_loads(Strip(lines[i]))
             rest == EntriesOf(lines, i + 1, t)
         IN  IF parsed.ok /\ parsed.dict /\ DictGet(parsed.value, K_target) = t
             THEN << parsed.value >> \o rest
             ELSE rest

\* C12: every read_pending_messages call returns a list, never raises; the
\* list is empty when the file is absent, and otherwise holds every
\* well-formed entry of the target, the other lines being skipped.
C12_ReadNeverAborts ==
    lastRead.target # NoName
      => /\ ~ lastRead.raised
         /\ lastRead.messages = IF messages_file.exists
                                THEN EntriesOf(Lines(messages_file.text), 1, lastRead.target)
                                ELSE << >>

(***************************************************************************)
(* Properties of pairing                                                   *)
(***************************************************************************)
PairedSessions(st) == { name \in PairSessions : st.paired[name] }

\* C13: at most one session has paired = true, and a call that enables
\* pairing on a session while another session has paired = true returns
\* false and changes nothing.
C13_AtMostOnePaired ==
    /\ Cardinality(PairedSessions(PairState)) <= 1
    /\ \A i \in 1..Len(toggles) :
          toggles[i].enabling /\ PairedSessions(toggles[i].before) \ { toggles[i].session } # { }
            => toggles[i].outcome = "false" /\ toggles[i].after = toggles[i].before

\* C14: a session has paired = true exactly when source_path is a symlink to
\* its work_path and {source_path}.backup exists.
C14_PairedIffSymlinkAndBackup ==
    \A name \in PairSessions :
        paired[name] <=> (fs.source = LinkTo(name) /\ Exists(fs.backup))

\* C15: a toggle_pairing call in which a step failed returned (false, reason)
\* and left the filesystem and the paired flag as they were before the call.
C15_FailedToggleRollsBack ==
    \A i \in 1..Len(toggles) :
        toggles[i].outcome # "true"
          => toggles[i].outcome = "false" /\ toggles[i].after = toggles[i].before

\* the call before call i enabled pairing on an unpaired executor whose
\* worktree .git file was as git worktree add wrote it, call i disabled it on
\* the same session, and both returned true
RoundTripAt(i) ==
    /\ toggles[i - 1].outcome = "true"
    /\ toggles[i - 1].enabling
    /\ toggles[i - 1].before.gitFile[toggles[i - 1].session]
          = ResolvedGit(toggles[i - 1].before.fs.source, "source")
    /\ toggles[i].outcome = "true"
    /\ ~ toggles[i].enabling
    /\ toggles[i].session = toggles[i - 1].session

\* C16: enabling and then disabling pairing on an unpaired executor, both
\* calls returning true, leaves source_path the directory it was (with its
\* .git), no backup, paired = false, and the worktree's .git file as it was
\* before pairing.
C16_PairingRoundTrip ==
    \A i \in 2..Len(toggles) :
        RoundTripAt(i)
          => LET name == toggles[i].session
                 was == toggles[i - 1].before
                 now == toggles[i].after
             IN  /\ now.fs.source = was.fs.source
                 /\ now.fs.source.kind = "dir"
                 /\ now.fs.backup = Absent
                 /\ ~ now.paired[name]
                 /\ now.gitFile[name] = was.gitFile[name]

\* a round trip on a project whose .git is a real directory, the session
\* having been paired in between with its .git file naming the backup
C16_Witness ==
    \E i \in 2..Len(toggles) :
        /\ RoundTripAt(i)
        /\ toggles[i].before.fs.source = LinkTo(toggles[i].session)
        /\ toggles[i].before.gitFile[toggles[i].session] = "backup"
        /\ fs.source = Dir("dir")

(***************************************************************************)
(* Properties of the monitor service                                       *)
(***************************************************************************)
RECURSIVE Concat(_)
\* the events of a list of combined prompts, in the order the agent got them
Concat(batches) ==
    IF batches = << >> THEN << >> ELSE Head(batches) \o Concat(Tail(batches))

\* the positions at which an event was put on the queue
Positions(seq, e) == { i \in 1..Len(seq) : seq[i] = e }

\* C17: the events a monitor's agent has received, read prompt after prompt
\* and inside each prompt from first to last, and after them the events of
\* the batch being collected, are in the order in which they were enqueued.
C17_HookFifo ==
    \A id \in 1..Len(monitors) :
        LET got == Concat(monitors[id].prompts) \o monitors[id].batch
            put == monitors[id].enqueued
        IN  \A i \in 1..Len(got), j \in 1..Len(got) :
                i < j => \A pi \in Positions(put, got[i]), pj \in Positions(put, got[j]) :
                            pi < pj

\* a monitor's agent got a prompt of two events and then another prompt
C17_Witness ==
    \E id \in 1..Len(monitors) :
        /\ Len(monitors[id].prompts) = 2
        /\ Len(monitors[id].prompts[1]) = 2
        /\ monitors[id].prompts[2] # << >>

\* C18: a queue never holds more than QueueCapacity events; an enqueue on a
\* full queue is answered 503 and adds nothing; while the consumer has taken
\* nothing, the first QueueCapacity enqueues are answered 200 and every later
\* one 503.
C18_QueueBounded ==
    \A id \in 1..Len(monitors) :
        /\ Len(monitors[id].queue) <= QueueCapacity
        /\ \A i \in 1..Len(monitors[id].puts) :
              LET put == monitors[id].puts[i] IN
              /\ put.before >= QueueCapacity => put.status = 503 /\ put.after = put.before
              /\ put.before < QueueCapacity => put.status = 200 /\ put.after = put.before + 1
              /\ monitors[id].taken = 0
                    => put.status = IF i <= QueueCapacity THEN 200 ELSE 503

\* a monitor whose consumer took nothing answered QueueCapacity requests
\* with 200 and the next with 503
C18_Witness ==
    \E id \in 1..Len(monitors) :
        /\ monitors[id].taken = 0
        /\ Len(monitors[id].puts) = QueueCapacity + 1
        /\ monitors[id].puts[QueueCapacity + 1].status = 503
        /\ Len(monitors[id].queue) = QueueCapacity

\* C19: after the sending of a batch raised, the events of the batch are
\* marked done and the consumer loop is still running.
C19_FailedBatchLoopContinues ==
    \A id \in 1..Len(monitors) :
        monitors[id].failed > 0
          => /\ monitors[id].unfinished = Len(monitors[id].queue) + Len(monitors[id].batch)
             /\ monitors[id].task # "finished"

\* the monitors of a session that have been started
StartedFor(sid) ==
    { id \in 1..Len(monitors) : monitors[id].session_id = sid /\ monitors[id].client }

\* C20: at most one monitor is started for a session_id, and every event
\* accepted for it is on the monitor the registry holds.
C20_OneMonitorPerSession ==
    \A sid \in HookSessions :
        /\ Cardinality(StartedFor(sid)) <= 1
        /\ \A id \in StartedFor(sid) :
              monitors[id].enqueued # << >> => _monitors[sid] = id

(***************************************************************************)
(* Properties of the monitor service's shutdown                            *)
(***************************************************************************)
\* C21: when the shutdown handler is over, every monitor that was registered
\* has no running consumer task and a closed agent client, and the registry
\* is empty; also for monitors whose task was waiting for an event or had a
\* batch in hand.
C21_ShutdownStopsAll ==
    down.pc \in { "returned", "raised" }
      => /\ \A sid \in HookSessions : _monitors[sid] = NoMonitor
         /\ \A id \in down.registered :
               /\ monitors[id].task \in { "none", "cancelled" }
               /\ ~ monitors[id].client

(***************************************************************************)
(* Properties of the consumer loop in time                                 *)
(***************************************************************************)
\* a consumer task that is collecting a batch
Collecting(m) == m.task \in { "collecting", "polling" }

\* C22: every combined prompt has at least 1 and at most MAX_BATCH_SIZE
\* events; a collection ends only with a full batch, after a wait of
\* BATCH_WAIT_TIME without an event, or at a batch age of MAX_BATCH_WAIT or
\* more; and it ends as soon as one of these holds: no consumer is in a wait
\* for a further event with a full batch or with a batch older than
\* MAX_BATCH_WAIT.
C22_BatchStopsOnFirstLimit ==
    \A id \in 1..Len(monitors) :
        LET m == monitors[id] IN
        /\ \A i \in 1..Len(m.prompts) :
              Len(m.prompts[i]) >= 1 /\ Len(m.prompts[i]) <= MAX_BATCH_SIZE
        /\ \A i \in 1..Len(m.ended) :
              \/ m.ended[i].size = MAX_BATCH_SIZE
              \/ m.ended[i].waited = BATCH_WAIT_TIME
              \/ m.ended[i].age >= MAX_BATCH_WAIT
        /\ m.task = "polling"
              => /\ Len(m.batch) < MAX_BATCH_SIZE
                 /\ time - m.wait_start <= BATCH_WAIT_TIME
                 /\ BatchAge(m) <= MAX_BATCH_WAIT

\* C23: from the dequeuing of a batch's first event to the end of its
\* collection at most MAX_BATCH_WAIT seconds pass, whenever later events
\* arrive.
C23_CollectionWithinMaxWait ==
    \A id \in 1..Len(monitors) :
        \A i \in 1..Len(monitors[id].ended) : monitors[id].ended[i].age <= MAX_BATCH_WAIT

(***************************************************************************)
(* Properties of the hook handler                                          *)
(***************************************************************************)
\* a request was received and answered at once: no request went on to look
\* for a monitor
PostRejected ==
    /\ posted' = posted + 1
    /\ \A r \in HookRequests : hreq'[r].pc = "route" => hreq[r].pc = "route"

\* C24: a hook request whose body is not valid JSON or has no source_path is
\* answered 400, and its handling creates no monitor, changes no registry
\* entry and enqueues no event.
C24_BadHookAnswered400 ==
    [][ PostRejected
          => /\ \A r \in HookRequests : hreq'[r] # hreq[r] => hreq'[r].status = 400
             /\ UNCHANGED << _monitors, monitors >> ]_vars

(***************************************************************************)
(* Properties of the control plane's send_message                          *)
(***************************************************************************)
\* C27: send_message returns true exactly when both send-keys commands
\* returned 0, and then pane 0 of the session has received the text followed
\* by a carriage return.
C27_SendMessageTrueIffBothSucceed ==
    sent.codes # << >>
      => LET pane == panes[SessionId(sent.session_name)]
             text == IF sent.tool = "cerb" THEN sent.message
                     ELSE TypedText(sent.sender, sent.message)
         IN  /\ sent.delivered = "ok" <=> (sent.codes[1] = 0 /\ sent.codes[2] = 0)
             /\ sent.delivered = "ok"
                   => /\ Len(pane) >= 2
                      /\ pane[Len(pane) - 1] = Literal(text)
                      /\ pane[Len(pane)] = Enter

\* both commands succeeded on an executor's pane, which had already received
\* a text whose carriage return failed
C27_Witness ==
    /\ sent.codes = << 0, 0 >>
    /\ sent.delivered = "ok"
    /\ Len(panes[SessionId(sent.session_name)]) = 3

(***************************************************************************)
(* Properties of the control plane                                         *)
(***************************************************************************)
\* the containers docker holds now under the name of the latest call's
\* session
NowOf(call) == ContainersOf(containers, get_docker_container_name(call.session))

\* C25: start of a session whose terminal session is present returns true
\* and leaves one terminal session and, with containers, one running
\* container for it.
C25_StartIdempotent ==
    ctl.op = "start" /\ ctl.had_terminal
      => /\ ctl.outcome = "true"
         /\ ctl.session \in terminals
         /\ use_docker
               => /\ Cardinality(NowOf(ctl)) = 1
                  /\ \A c \in NowOf(ctl) : c.state = "running"

\* C26: no control-plane call is left by an exception; a failure of docker,
\* tmux or the filesystem is reported by the returned value.
C26_NoExceptionLeavesCall ==
    ctl.outcome # "raised"

\* C28: when start_docker_container has returned True, docker holds one
\* container of that name and it is running; a container that was running
\* is the same one and none was created; a container that was stopped is
\* gone and a new one was created.
C28_ContainerStartIdempotent ==
    ctl.op = "start" /\ ctl.docker = "true"
      => /\ Cardinality(NowOf(ctl)) = 1
         /\ \A c \in NowOf(ctl) : c.state = "running"
         /\ \A c \in ctl.was :
               /\ c.state = "running" => NowOf(ctl) = ctl.was
               /\ c.state = "stopped"
                     => /\ c.id \notin { k.id : k \in NowOf(ctl) }
                        /\ \A k \in NowOf(ctl) : k.id = created

\* a start found a stopped container and replaced it
C28_Witness ==
    /\ ctl.op = "start"
    /\ ctl.docker = "true"
    /\ \E c \in ctl.was : c.state = "stopped"
    /\ created = 2

(***************************************************************************)
(* Properties of session names and work paths                              *)
(***************************************************************************)
\* C29: no two sessions of the project's persisted tree have the same
\* session_name (a spawn under a name in use is rejected and changes
\* nothing), so that find_session by name has one candidate.
C29_NamesUniqueInProject ==
    LET all == Flatten(store) IN
    \A i \in 1..Len(all), j \in 1..Len(all) :
        i # j => all[i].session_name # all[j].session_name

\* Session.work_path after prepare: the project's source_path for a
\* designer, the worktree named after the session_id for an executor
work_path(s) ==
    IF s.agent_type = "designer" THEN SourcePath
    ELSE << "worktrees" >> \o SourcePath \o SessionId(s.session_name)

\* a session of the tree whose terminal session exists
Live(s) == SessionId(s.session_name) \in terminals

\* C30: no two live sessions of the persisted tree have the same work_path,
\* designers (whose work_path is the source_path) and executors alike.
C30_WorkPathExclusive ==
    LET all == Flatten(store) IN
    \A i \in 1..Len(all), j \in 1..Len(all) :
        i # j /\ Live(all[i]) /\ Live(all[j]) => work_path(all[i]) # work_path(all[j])
\* the priority the session_id is to be picked by: the payload's field, the
\* environment's override, git's branch, "unknown"
Unknown == << "u", "n", "k", "n", "o", "w", "n" >>

PickedByPriority(data, env, git) ==
    IF DictGet(data.value, K_git_branch) # None THEN DictGet(data.value, K_git_branch)
    ELSE IF env # None THEN env
    ELSE IF git # None THEN git
    ELSE Unknown

\* C31: once the forwarder has attempted the POST, however the POST ended
\* (a status, a refused connection, the timeout), the forwarder has
\* terminated with exit code 0.
C31_PostNeverFailsForwarder ==
    fwd.post # "" => fwd.pc = "done" /\ fwd.exit = 0

C31_Witness ==
    /\ fwd.pc = "done"
    /\ fwd.post = "timeout"
    /\ fwd.exit = 0

\* C32: for a payload that is a JSON object, the forwarder attempts a POST
\* and the session_id it posts to is the one the priority picks: explicit
\* field, else environment override, else git's branch, else "unknown".
C32_SessionIdByPriority ==
    (fwd.pc = "done" /\ ForwarderDecoded[fwd.stdin].ok /\ ForwarderDecoded[fwd.stdin].dict)
      => /\ fwd.post # ""
         /\ fwd.session_id = PickedByPriority(ForwarderDecoded[fwd.stdin], fwd.env, fwd.git)

\* the steps logged so far, and the sessions of the cleanups among them
StepsOf(log) == [ i \in 1..Len(log) |-> log[i].step ]

CleanedOf(log) ==
    LET RECURSIVE From(_)
        From(i) == IF i > Len(log) THEN << >>
                   ELSE (IF log[i].step = "cleanup" THEN << log[i].session >> ELSE << >>)
                        \o From(i + 1)
    IN  From(1)

\* some step of the first part of cleanup_servers failed
CleanupFailed == \E i \in 1..Len(sup.log) : sup.log[i].step \in { "load", "cleanup" } /\ ~ sup.log[i].ok

\* C33: cleanup_servers never stops at a failure of loading or of a
\* session's cleanup, and it works in order: the pairing artifacts of every
\* loaded session, then the MCP process, then the monitor process, then
\* kill-server; when it is done both processes are terminated and
\* kill-server was run.
C33_CleanupInOrderAndBestEffort ==
    /\ sup.pc # "raised"
    /\ sup.mcp_proc \/ (sup.sessions = << >> /\ sup.pc \in { "monitor", "server", "done" })
    /\ sup.monitor_proc \/ (~ sup.mcp_proc /\ sup.pc \in { "server", "done" })
    /\ sup.pc = "done"
         => /\ ~ sup.mcp_proc /\ ~ sup.monitor_proc
            /\ CleanedOf(sup.log) = load_sessions_flat(sup.log[1].ok)
            /\ StepsOf(sup.log) = << "load" >> \o [ i \in 1..Len(CleanedOf(sup.log)) |-> "cleanup" ]
                                    \o << "mcp", "monitor", "server" >>

C33_Witness ==
    /\ sup.pc = "done"
    /\ \E i \in 1..Len(sup.log) : sup.log[i].step = "cleanup" /\ ~ sup.log[i].ok
    /\ ~ sup.mcp_proc /\ ~ sup.monitor_proc /\ ~ sup.server

\* C34: a call that found .git a real directory and the stable destination
\* already there failed and left .git as it was.
C34_ExistingDestinationRefused ==
    (repo.calls > 0 /\ repo.last.before[1].git.kind = "dir"
                    /\ repo.last.before[1].stable.kind # "absent")
      => /\ repo.last.outcome = "raised"
         /\ repo.git = repo.last.before[1].git

\* C35: a disabling call is refused with nothing changed unless source_path
\* is a symlink and the backup exists; and it renames the backup back to
\* source_path only after it has rewritten the worktree's .git file to name
\* the original git location.
C35_DisableReversesInOrder ==
    \A i \in 1..Len(toggles) :
        ~ toggles[i].enabling
          => LET name == toggles[i].session
                 was == toggles[i].before
                 now == toggles[i].after
             IN  /\ (was.fs.source.kind # "link" \/ ~ Exists(was.fs.backup))
                      => toggles[i].outcome = "false" /\ now = was
                 /\ (Exists(was.fs.backup) /\ now.fs.backup = Absent)
                      => now.gitFile[name] = ResolvedGit(now.fs.source, "source")

\* a container of the session's name that docker did not hold before
NewContainers(name) ==
    ContainersOf(containers', get_docker_container_name(name)) \ containers

\* C36: a step that creates a terminal session or a container for a session
\* leaves that session prepared; and the control plane's start called for a
\* session without work_path returns false and creates neither.
C36_NoStartUnprepared ==
    [][ /\ \A name \in CtlSessions :
              (name \in terminals' \ terminals \/ NewContainers(name) # { })
                => name \in prepared'
        /\ (ctl'.seq # ctl.seq /\ ctl'.op = "start" /\ ~ ctl'.prepared)
              => /\ ctl'.outcome = "false"
                 /\ containers' = containers
                 /\ terminals' = terminals ]_vars

C36_Witness ==
    /\ ctl.op = "start"
    /\ ~ ctl.prepared
    /\ ctl.outcome = "false"
    /\ ctl.session \notin terminals
    /\ ContainersOf(containers, get_docker_container_name(ctl.session)) = { }

\* C37: every change of a session's designer.md other than a deletion,
\* made while its watch is registered and awatch watches its directory, is
\* eventually
\* followed by the notification of that change to the session, unless the
\* watcher is stopped.
C37_ModificationEventuallyNotified ==
    \A sid \in WatchSessions : \A n \in 1..MaxChanges :
        (watch.modified[sid] >= n) ~> (watch.notified[sid] >= n \/ watch._should_stop)

\* the events a monitor's consumer has taken from the queue, the events it
\* has sent in prompts, and the number of task_done calls
Dequeued(m) == SubSeq(m.enqueued, 1, m.taken)
SentEvents(m) == Concat(m.prompts)
DoneCalls(m) == Len(m.enqueued) - m.unfinished

\* the consumer task is in its loop
Looping(m) == m.task \in { "startup", "waiting", "collecting", "sending" }

\* C38 as stated: every event taken from the queue is in the batch in hand
\* or in exactly one prompt sent, and task_done was called once for every
\* event sent.
C38_DequeuedSentExactlyOnce ==
    \A id \in 1..Len(monitors) :
        LET m == monitors[id] IN
        /\ SentEvents(m) \o m.batch = Dequeued(m)
        /\ DoneCalls(m) = Len(SentEvents(m))

\* C38 amended: the events sent and the batch in hand are, in order, the
\* first of the events taken, so no event is sent twice; while the consumer
\* task is in its loop they are all of them, and task_done was called once
\* per event sent; after a query raised task_done was called once for every
\* event taken; after a cancellation the events of a batch in collection
\* were neither sent nor marked done.
C38_DequeuedSentAtMostOnce ==
    \A id \in 1..Len(monitors) :
        LET m == monitors[id]
            got == SentEvents(m) \o m.batch
        IN  /\ Len(got) <= m.taken
            /\ got = SubSeq(Dequeued(m), 1, Len(got))
            /\ Len(SentEvents(m)) <= DoneCalls(m)
            /\ DoneCalls(m) <= m.taken - Len(m.batch)
            /\ Looping(m) => got = Dequeued(m) /\ DoneCalls(m) = Len(SentEvents(m))
            /\ m.task = "finished" => DoneCalls(m) = m.taken

\* a consumer that took two events, sent them in one prompt and marked both
\* done, and waits for the next
C38_Witness ==
    \E id \in 1..Len(monitors) :
        /\ monitors[id].task = "waiting"
        /\ monitors[id].taken = 2
        /\ monitors[id].prompts = << Dequeued(monitors[id]) >>
        /\ DoneCalls(monitors[id]) = 2

\* event e was accepted: it was put on a monitor's queue and answered ok
Accepted(e) ==
    \E id \in 1..Len(monitors) : Positions(monitors[id].enqueued, e) # { }

\* event e is on a queue, or in a batch not yet sent
Pending(e) ==
    \E id \in 1..Len(monitors) :
        Positions(monitors[id].queue, e) # { } \/ Positions(monitors[id].batch, e) # { }

\* C39: every accepted event eventually leaves the queue and the batch in
\* hand for the agent: none stays in the queue forever, the agent answering
\* every prompt with a result or with an error.
C39_AcceptedEventuallySent ==
    \A e \in 1..MaxHooks : Accepted(e) ~> ~ Pending(e)

=============================================================================
